---- MODULE Spec2Model ----
(***************************************************************************)
(* Verification model of the Kaltura administration scripts:               *)
(*   delete-flavors, delete-entries, delete-cuePoints (both versions),     *)
(*   Batch-Delete-Quiz-Attempts (both variants) and                        *)
(*   duplicate-entries-across-pids.                                        *)
(* Every script is a sequential program; the remote API and the operator   *)
(* are the environment, whose answers are drawn when a call is made.       *)
(* Each script has its own specification (SpecDF, SpecDE, ...); the        *)
(* variables of the other scripts stay at their idle value.                *)
(***************************************************************************)
EXTENDS Integers, Sequences, FiniteSets, TLC

VARIABLES
    \* ---- delete-flavors/delete-flavors.py
    dfKeep,         \* ADDITIONAL_FLAVORS_TO_KEEP
    dfEntries,      \* entries returned by iter_selected_entries()
    dfIdx,          \* index of the next entry of the build loop in main()
    dfParent,       \* parent entry whose children are being planned
    dfChildren,     \* children of dfParent still to plan
    dfPreviewRows,  \* preview_rows
    dfPreviewCsv,   \* the PREVIEW CSV file
    dfAnswer,       \* raw text typed at the DELETE prompt
    dfRowIdx,       \* index of the next preview row of the deletion loop
    dfResultRows,   \* result_rows
    dfResultCsv,    \* the RESULT CSV file
    dfDeleteCalls,  \* log of flavorAsset.delete calls: [entry, flv]
    dfPc,           \* position of main()
    \* ---- delete-entries/delete-entries.py
    deEntryIds,     \* entry_ids
    deIdx,          \* index of the next id of the collection loop
    deReport,       \* report
    dePreviewCsv,   \* the PREVIEW CSV file
    deAnswer,       \* raw text typed at the DELETE/RECYCLE prompt
    deRowIdx,       \* index of the next row of the deletion loop
    deResultCsv,    \* the RESULT CSV file
    deCalls,        \* log of baseEntry.delete / recycle calls: [op, row, eid]
    dePc,           \* position of the script
    \* ---- delete-cuePoints.py and delete-cue-points/delete-cuePoints.py
    cpVersion,      \* "old": delete-cuePoints.py, "new": delete-cue-points/
    cpType,         \* cue_point_type selected in main()
    cpEntryIds,     \* entry_ids
    cpIdx,          \* index of the entry of the loop of list_and_delete_cue_points
    cpCuePoints,    \* cue_points of that entry still to delete
    cpTotalDeleted, \* total_deleted
    cpUserIds,      \* user_ids_to_delete
    cpRows,         \* rows
    cpCsv,          \* the CSV report
    cpListCalls,    \* log of the loop turns: [entry, ids] (ids listed, if any)
    cpPrompts,      \* log of the prompts answered: [phase, entry, answer]
    cpDeleteCalls,  \* log of cuePoint.delete calls: [entry, id, ok]
    ueIdx,          \* index of the entry of the loop of list_and_delete_user_entries
    ueEntries,      \* user_entries of that entry still to delete
    ueListCalls,    \* log of userEntry.list calls: [entry, userIdIn, ids]
    ueDeleteCalls,  \* log of userEntry.delete calls: [entry, id, ok]
    ueTotalDeleted, \* total_deleted of list_and_delete_user_entries
    cpPc,           \* position of main()
    \* ---- Batch-Delete-Quiz-Attempts/batch-delete-quiz-attempts[-ALL].py
    bqVariant,      \* "ALL": ...-ALL.py, "users": batch-delete-quiz-attempts.py
    bqEntryIds,     \* entry_ids
    bqUserIds,      \* user_ids ("users" variant)
    bqEntryIdx,     \* index of the entry of the collection loop
    bqUserIdx,      \* index of the user of the inner loop ("users" variant)
    bqPage,         \* page_index of get_quiz_attempt_ids ("ALL" variant)
    bqAttemptIds,   \* attempt_ids of the running get_quiz_attempt_ids call
    bqListReqs,     \* log of userEntry list requests and their outcomes
    bqErrors,       \* entries (and users) whose collection raised
    bqAll,          \* all_attempt_ids
    bqAnswer,       \* raw text typed at the (yes/no) prompt
    bqDelIdx,       \* index of the next id of the deletion loop
    bqDeleteReqs,   \* log of userEntry delete requests: the ids sent
    bqOkCount,      \* delete requests the server answered with success
    bqDeletedCount, \* deleted_count
    bqReported,     \* the count printed at the end (-1: nothing printed)
    bqPc,           \* position of main()
    \* ---- duplicate-entries-across-pids/duplicate-entries-across-pids.py
    dupParent,      \* source partner: parentEntryId of every entry ("" if none)
    dupImages,      \* source partner: the entries whose mediaType is 2
    dupEntryIds,    \* [entry.id for entry in entries], the selection
    dupIdx,         \* index of the entry id of get_sorted_entries' loop
    dupEntries,     \* entries of get_sorted_entries (ids, as retrieved)
    dupParentMap,   \* parent_map of get_sorted_entries
    dupSorted,      \* sorted_entries
    dupMainIdx,     \* index of the entry of main()'s copy loop
    dupMainCalls,   \* log of main()'s calls of copy_entry: the entry ids
    dupStack,       \* running copy_entry calls: [id, dest, kids (still to copy)]
    dupAdds,        \* log of media.add / baseEntry.add: [src, dest, parent, ok]
    dupMapping,     \* entry_id_mapping
    dupNextId,      \* the id the destination partner gives the next entry
    dupCsvEntries,  \* csv_entries, in insertion order
    dupCsv,         \* the rows of the CSV file, or CsvNone
    dupPc,          \* position of main()
    \* ---- duplicate-entries-across-pids.py, copy_cuepoints
    cqCopyAnswers,  \* COPY_QUIZ_ANSWERS
    cqSource,       \* the cue points of the source entry
    cqCuepoints,    \* cuepoints, as get_cuepoints returned them
    cqParentChildMap, \* parent_child_map
    cqIdx,          \* index of the cue of the loop of copy_cuepoints
    cqAddReqs,      \* log of cuePoint.add: [src, cuePointType, ok]
    cqMapping,      \* entry_id_mapping, the cue point ids
    cqCopiedCount,  \* copied_count
    cqListOk,       \* cuePoint.list returned
    cqPc,           \* position of copy_cuepoints
    \* ---- media-retention/include-flavor-calculations.py
    ifcRows,        \* the data rows of the input CSV
    ifcQueue,       \* pool.q
    ifcUnfinished,  \* pool.q.unfinished_tasks
    ifcResults,     \* pool.results
    ifcErrs,        \* pool.errs (its keys)
    ifcCounters,    \* pool.processed, fast_processed, api_processed, queued
    ifcLock,        \* pool.lock: its holder, or LockFree
    ifcStop,        \* pool._stop
    ifcW,           \* the worker threads: position, row index, counter to bump
    ifcMainPc,      \* position of enrich_csv
    ifcPutIdx,      \* index of the row of the queueing loop
    ifcOut,         \* the rows written to the output CSV
    ifcStores,      \* log of the stores to pool.results: [idx, value, by]
    ifcWrites,      \* the writes of worker threads: [target, locked]
    \* ---- operation loops of rename-entries, create-channels, clone-quizzes
    lpScript,       \* which script runs its operation loop
    lpItems,        \* the selected items (entries, CSV rows, entry ids)
    lpIdx,          \* 1-based position of the loop
    lpCalls,        \* API calls made so far, in order
    lpRows,         \* result rows written / appended
    lpPrinted,      \* error messages printed by an except clause
    lpPc,           \* "loop", "done" or "crashed"
    \* ---- retry_call of media-retention-report
    rcAttempt,      \* retry_call: attempt, the number of failures so far
    rcHistory,      \* one record per invocation of fn, in order
    rcWarnCounts,   \* WARN_COUNTS
    rcSleeps,       \* the attempt numbers after which retry_call slept
    rcErrRows,      \* rows appended to the error log by retry_call
    rcRaised,       \* the exception retry_call re-raised, as a record
    rcPc            \* "call", "returned" or "raised"

dfVars == <<dfKeep, dfEntries, dfIdx, dfParent, dfChildren, dfPreviewRows,
            dfPreviewCsv, dfAnswer, dfRowIdx, dfResultRows, dfResultCsv,
            dfDeleteCalls, dfPc>>

deVars == <<deEntryIds, deIdx, deReport, dePreviewCsv, deAnswer, deRowIdx,
            deResultCsv, deCalls, dePc>>

cpVars == <<cpVersion, cpType, cpEntryIds, cpIdx, cpCuePoints, cpTotalDeleted,
            cpUserIds, cpRows, cpCsv, cpListCalls, cpPrompts, cpDeleteCalls,
            ueIdx, ueEntries, ueListCalls, ueDeleteCalls, ueTotalDeleted, cpPc>>

bqVars == <<bqVariant, bqEntryIds, bqUserIds, bqEntryIdx, bqUserIdx, bqPage,
            bqAttemptIds, bqListReqs, bqErrors, bqAll, bqAnswer, bqDelIdx,
            bqDeleteReqs, bqOkCount, bqDeletedCount, bqReported, bqPc>>

dupVars == <<dupParent, dupImages, dupEntryIds, dupIdx, dupEntries,
             dupParentMap, dupSorted, dupMainIdx, dupMainCalls, dupStack,
             dupAdds, dupMapping, dupNextId, dupCsvEntries, dupCsv, dupPc>>

cqVars == <<cqCopyAnswers, cqSource, cqCuepoints, cqParentChildMap, cqIdx,
            cqAddReqs, cqMapping, cqCopiedCount, cqListOk, cqPc>>

ifcVars == <<ifcRows, ifcQueue, ifcUnfinished, ifcResults, ifcErrs, ifcCounters, ifcLock, ifcStop, ifcW, ifcMainPc, ifcPutIdx, ifcOut, ifcStores, ifcWrites>>

lpVars == <<lpScript, lpItems, lpIdx, lpCalls, lpRows, lpPrinted, lpPc>>

rcVars == <<rcAttempt, rcHistory, rcWarnCounts, rcSleeps, rcErrRows, rcRaised, rcPc>>

vars == <<dfVars, deVars, cpVars, bqVars, dupVars, cqVars, ifcVars, lpVars, rcVars>>

\* What a run of one script leaves alone: the other scripts.
dfOthers == <<deVars, cpVars, bqVars, dupVars, cqVars, ifcVars, lpVars, rcVars>>
deOthers == <<dfVars, cpVars, bqVars, dupVars, cqVars, ifcVars, lpVars, rcVars>>
cpOthers == <<dfVars, deVars, bqVars, dupVars, cqVars, ifcVars, lpVars, rcVars>>
bqOthers == <<dfVars, deVars, cpVars, dupVars, cqVars, ifcVars, lpVars, rcVars>>
dupOthers == <<dfVars, deVars, cpVars, bqVars, cqVars, ifcVars, lpVars, rcVars>>
cqOthers == <<dfVars, deVars, cpVars, bqVars, dupVars, ifcVars, lpVars, rcVars>>
ifcOthers == <<dfVars, deVars, cpVars, bqVars, dupVars, cqVars, lpVars, rcVars>>
lpOthers == <<dfVars, deVars, cpVars, bqVars, dupVars, cqVars, ifcVars, rcVars>>
rcOthers == <<dfVars, deVars, cpVars, bqVars, dupVars, cqVars, ifcVars, lpVars>>

(***************************************************************************)
(* Bounds                                                                  *)
(***************************************************************************)
MaxFlavors == 3     \* flavors returned by one flavorAsset.list call

(***************************************************************************)
(* Text: a Python str is a sequence of one-character strings.              *)
(***************************************************************************)
LowerAlpha == <<"a","b","c","d","e","f","g","h","i","j","k","l","m",
                "n","o","p","q","r","s","t","u","v","w","x","y","z">>
UpperAlpha == <<"A","B","C","D","E","F","G","H","I","J","K","L","M",
                "N","O","P","Q","R","S","T","U","V","W","X","Y","Z">>

UpperChar(c) ==
    IF \E i \in 1..26 : LowerAlpha[i] = c
    THEN UpperAlpha[CHOOSE i \in 1..26 : LowerAlpha[i] = c]
    ELSE c

LowerChar(c) ==
    IF \E i \in 1..26 : UpperAlpha[i] = c
    THEN LowerAlpha[CHOOSE i \in 1..26 : UpperAlpha[i] = c]
    ELSE c

\* str.upper()
Upper(s) == [i \in 1..Len(s) |-> UpperChar(s[i])]

\* str.lower()
Lower(s) == [i \in 1..Len(s) |-> LowerChar(s[i])]

IsSpace(c) == c \in {" ", "\t", "\n"}

RECURSIVE LStrip(_)
LStrip(s) == IF s # <<>> /\ IsSpace(Head(s)) THEN LStrip(Tail(s)) ELSE s

RECURSIVE RStrip(_)
RStrip(s) ==
    IF s # <<>> /\ IsSpace(s[Len(s)])
    THEN RStrip(SubSeq(s, 1, Len(s) - 1))
    ELSE s

\* str.strip()
Strip(s) == RStrip(LStrip(s))

\* sub in s
Contains(s, sub) ==
    \E i \in 0..(Len(s) - Len(sub)) : SubSeq(s, i + 1, i + Len(sub)) = sub

RECURSIVE SplitFrom(_, _, _)
SplitFrom(s, sep, cur) ==
    IF s = <<>> THEN <<cur>>
    ELSE IF Head(s) = sep
         THEN <<cur>> \o SplitFrom(Tail(s), sep, <<>>)
         ELSE SplitFrom(Tail(s), sep, Append(cur, Head(s)))

\* s.split(sep) for a one-character separator
Split(s, sep) == SplitFrom(s, sep, <<>>)

RECURSIVE Join(_, _)
\* sep.join(parts)
Join(parts, sep) ==
    IF parts = <<>> THEN <<>>
    ELSE IF Len(parts) = 1 THEN parts[1]
         ELSE parts[1] \o <<sep>> \o Join(Tail(parts), sep)

S_DELETE == <<"D","E","L","E","T","E">>
S_RECYCLE == <<"R","E","C","Y","C","L","E">>
S_y == <<"y">>
S_yes == <<"y","e","s">>
S_source == <<"s","o","u","r","c","e">>

\* What the operator may type at a prompt.
Answers ==
    { S_DELETE,
      <<" ","d","e","l","e","t","e","\n">>,
      S_RECYCLE,
      <<"r","e","c","y","c","l","e"," ">>,
      S_y,
      <<" ","Y"," ">>,
      S_yes,
      <<"Y","E","S"," ">>,
      <<"n","o">>,
      <<>> }

NoAnswer == <<"?">>  \* nothing typed yet

SeqsUpTo(S, n) == UNION {[1..k -> S] : k \in 0..n}
InjSeqsUpTo(S, n) ==
    {s \in SeqsUpTo(S, n) : \A i, j \in 1..Len(s) : i # j => s[i] # s[j]}
Range(s) == {s[i] : i \in 1..Len(s)}

\* What the operator may type at a Y/N prompt.
YesNoAnswers == { S_y, <<" ","Y"," ">>, S_yes, <<"n">> }

RECURSIVE SetToSeq(_)
\* the elements of a set, in some order (iteration over a Python set)
SetToSeq(S) ==
    IF S = {} THEN <<>>
    ELSE LET x == CHOOSE x \in S : TRUE IN <<x>> \o SetToSeq(S \ {x})

\* x put after the last element of the sorted sequence whose key is <= x.key
InsertByKey(sorted, x) ==
    LET n == Cardinality({i \in 1..Len(sorted) : sorted[i].key <= x.key})
    IN  SubSeq(sorted, 1, n) \o <<x>> \o SubSeq(sorted, n + 1, Len(sorted))

RECURSIVE SortByKey(_)
\* sorted(s, key = .key) / list.sort(key = .key): stable, ascending
SortByKey(s) ==
    IF s = <<>> THEN <<>>
    ELSE InsertByKey(SortByKey(SubSeq(s, 1, Len(s) - 1)), s[Len(s)])

CsvNone == [written |-> FALSE, rows |-> <<>>]
CsvOf(rows) == [written |-> TRUE, rows |-> rows]

(***************************************************************************)
(* delete-flavors/delete-flavors.py                                        *)
(***************************************************************************)
DFParentIds == {"a"}  \* ids of entries a selection can return
DFChildIds == {"c"}         \* ids of child (multi-stream) entries
SizeValues == {0, 1}        \* flavor sizes a listing reports

Digits == <<"1", "2", "3", "4", "5", "6">>

\* The id the server gave the i-th flavor of entry e: ids are non-empty,
\* unique, and hold neither commas nor white space.
FlavorId(e, i) == <<e, Digits[i]>>

TagValues == { <<"w","e","b">>, <<"m","b","r",",","S","o","u","r","c","e">> }

FlavorAttrs ==
    [isOriginal : BOOLEAN, tags : TagValues, size : SizeValues,
     flavorParamsId : {0, 1}]

\* The answers flavorAsset.list(entryIdEqual = e) can give.
FlavorLists(e) ==
    { [i \in 1..Len(f) |->
          [id |-> FlavorId(e, i), isOriginal |-> f[i].isOriginal,
           tags |-> f[i].tags, size |-> f[i].size,
           flavorParamsId |-> f[i].flavorParamsId]] :
      f \in SeqsUpTo(FlavorAttrs, MaxFlavors) }

NoSource == [id |-> <<>>, reason |-> "none"]

pick_source_flavor(flavors) ==
    IF flavors = <<>> THEN NoSource
    ELSE IF \E i \in 1..Len(flavors) : flavors[i].isOriginal
    THEN LET i == CHOOSE i \in 1..Len(flavors) :
                     /\ flavors[i].isOriginal
                     /\ \A j \in 1..(i - 1) : ~flavors[j].isOriginal
         IN  [id |-> flavors[i].id, reason |-> "isOriginal"]
    ELSE IF \E i \in 1..Len(flavors) : Contains(Lower(flavors[i].tags), S_source)
    THEN LET i == CHOOSE i \in 1..Len(flavors) :
                     /\ Contains(Lower(flavors[i].tags), S_source)
                     /\ \A j \in 1..(i - 1) :
                           ~Contains(Lower(flavors[j].tags), S_source)
         IN  [id |-> flavors[i].id, reason |-> "tags:source"]
    ELSE LET i == CHOOSE i \in 1..Len(flavors) :
                     /\ \A j \in 1..Len(flavors) : flavors[j].size <= flavors[i].size
                     /\ \A j \in 1..(i - 1) : flavors[j].size < flavors[i].size
         IN  [id |-> flavors[i].id, reason |-> "largest"]

\* to_delete_ids of build_preview_rows_for_entry: every flavor but the
\* source and the flavors whose flavorParamsId is to be kept.
\* As KeepFlavor, without the test that skips the source flavor.
KeepFlavor_NoSourceSkip(fa, src_id, keep) == fa.flavorParamsId \in keep

KeepFlavor(fa, src_id, keep) ==
    fa.id = src_id \/ fa.flavorParamsId \in keep

to_delete_ids(flavors, src_id, keep) ==
    LET Del(fa) == ~KeepFlavor(fa, src_id, keep)
        sel == SelectSeq(flavors, Del)
    IN  [i \in 1..Len(sel) |-> sel[i].id]

\* One row of the plan, for a parent or a child entry.
PlanRow(role, eid, parent, flavors, keep) ==
    LET total == Len(flavors)
        src == pick_source_flavor(flavors)
        base == [role |-> role, entry_id |-> eid, parent_entry_id |-> parent,
                 total_flavors |-> total, source_flavor_id |-> <<>>,
                 flavors_to_delete |-> <<>>, flavors_deleted_count |-> 0,
                 status |-> "SKIPPED_SINGLE_FLAVOR", error |-> FALSE]
    IN  IF total <= 1 THEN base
        ELSE IF src.id = <<>>
        THEN [base EXCEPT !.status = "SKIPPED_NO_SOURCE_DETECTED"]
        ELSE LET del == to_delete_ids(flavors, src.id, keep)
             IN  [base EXCEPT !.source_flavor_id = src.id,
                              !.flavors_to_delete = Join(del, ","),
                              !.flavors_deleted_count = Len(del),
                              !.status = "READY"]

ErrorRow(role, eid, parent) ==
    [role |-> role, entry_id |-> eid, parent_entry_id |-> parent,
     total_flavors |-> 0, source_flavor_id |-> <<>>,
     flavors_to_delete |-> <<>>, flavors_deleted_count |-> 0,
     status |-> "ERROR", error |-> TRUE]

DFListed == {dfPreviewRows[i].entry_id : i \in 1..Len(dfPreviewRows)}

DFInit ==
    /\ dfKeep \in {{}, {1}}
    /\ dfEntries \in InjSeqsUpTo(DFParentIds, Cardinality(DFParentIds))
    /\ dfIdx = 1
    /\ dfParent = ""
    /\ dfChildren = <<>>
    /\ dfPreviewRows = <<>>
    /\ dfPreviewCsv = CsvNone
    /\ dfAnswer = NoAnswer
    /\ dfRowIdx = 1
    /\ dfResultRows = <<>>
    /\ dfResultCsv = CsvNone
    /\ dfDeleteCalls = <<>>
    /\ dfPc = "build"

DFUnchangedRun ==
    UNCHANGED <<dfKeep, dfEntries, dfAnswer, dfRowIdx, dfResultRows,
                dfResultCsv, dfDeleteCalls>>

\* build_preview_rows_for_entry(e), parent part: flavorAsset.list raised.
DFParentListFails ==
    /\ dfPc = "build" /\ dfChildren = <<>> /\ dfIdx <= Len(dfEntries)
    /\ UNCHANGED dfOthers
    /\ dfPreviewRows' = Append(dfPreviewRows, ErrorRow("PARENT", dfEntries[dfIdx], ""))
    /\ dfIdx' = dfIdx + 1
    /\ UNCHANGED <<dfParent, dfChildren, dfPreviewCsv, dfPc>>
    /\ DFUnchangedRun

\* build_preview_rows_for_entry(e), parent part: the flavors and the children
\* are listed and the parent's row is appended.  A child is an entry of its
\* own, planned once.
DFPlanParent ==
    /\ dfPc = "build" /\ dfChildren = <<>> /\ dfIdx <= Len(dfEntries)
    /\ UNCHANGED dfOthers
    /\ \E flavors \in FlavorLists(dfEntries[dfIdx]),
          children \in InjSeqsUpTo(DFChildIds \ DFListed, Cardinality(DFChildIds)) :
          /\ dfPreviewRows' =
                Append(dfPreviewRows,
                       PlanRow("PARENT", dfEntries[dfIdx], "", flavors, dfKeep))
          /\ dfChildren' = children
          /\ dfParent' = dfEntries[dfIdx]
    /\ dfIdx' = dfIdx + 1
    /\ UNCHANGED <<dfPreviewCsv, dfPc>>
    /\ DFUnchangedRun

\* build_preview_rows_for_entry(e), one turn of the loop over the children.
DFPlanChild ==
    /\ dfPc = "build" /\ dfChildren # <<>>
    /\ UNCHANGED dfOthers
    /\ \/ \E flavors \in FlavorLists(Head(dfChildren)) :
             dfPreviewRows' =
                Append(dfPreviewRows,
                       PlanRow("CHILD", Head(dfChildren), dfParent, flavors, dfKeep))
       \/ dfPreviewRows' =
             Append(dfPreviewRows, ErrorRow("CHILD", Head(dfChildren), dfParent))
    /\ dfChildren' = Tail(dfChildren)
    /\ UNCHANGED <<dfIdx, dfParent, dfPreviewCsv, dfPc>>
    /\ DFUnchangedRun

DFReady(r) == r.status = "READY" /\ r.flavors_to_delete # <<>>

\* main(): write_csv(PREVIEW_CSV, preview_rows); return when nothing is READY.
DFWritePreview ==
    /\ dfPc = "build" /\ dfChildren = <<>> /\ dfIdx > Len(dfEntries)
    /\ UNCHANGED dfOthers
    /\ dfPreviewCsv' = CsvOf(dfPreviewRows)
    /\ dfPc' = IF \E i \in 1..Len(dfPreviewRows) : DFReady(dfPreviewRows[i])
               THEN "prompt" ELSE "done"
    /\ UNCHANGED <<dfIdx, dfParent, dfChildren, dfPreviewRows>>
    /\ DFUnchangedRun

\* As DFConfirmed, taking any non-empty answer as consent.
DFConfirmed_AnyAnswer(answer) == Strip(answer) # <<>>

\* confirm = input(...).strip().upper(); confirm == "DELETE"
DFConfirmed(answer) == Upper(Strip(answer)) = S_DELETE

\* main(): the typed confirmation.
DFConfirm ==
    /\ dfPc = "prompt"
    /\ UNCHANGED dfOthers
    /\ \E answer \in Answers :
          /\ dfAnswer' = answer
          /\ dfPc' = IF DFConfirmed(answer) THEN "delete" ELSE "done"
    /\ UNCHANGED <<dfKeep, dfEntries, dfIdx, dfParent, dfChildren, dfPreviewRows,
                   dfPreviewCsv, dfRowIdx, dfResultRows, dfResultCsv, dfDeleteCalls>>

\* r["flavors_to_delete"].split(","), each item stripped, empty items dropped
DFFlavorsOfRow(r) ==
    LET parts == Split(r.flavors_to_delete, ",")
        stripped == [i \in 1..Len(parts) |-> Strip(parts[i])]
        NonEmpty(x) == x # <<>>
    IN  SelectSeq(stripped, NonEmpty)

ApiOutcomes == {"ok", "KalturaException", "Exception"}

\* The delete calls made for a row whose calls end as `outcomes` say: a
\* KalturaException is noted and the loop goes on, any other exception ends
\* the row's loop.
RECURSIVE CallsMade(_)
CallsMade(outcomes) ==
    IF outcomes = <<>> THEN 0
    ELSE IF Head(outcomes) = "Exception" THEN 1
    ELSE 1 + CallsMade(Tail(outcomes))

\* main(): one turn of the deletion loop over preview_rows.
DFProcessRow ==
    /\ dfPc = "delete" /\ dfRowIdx <= Len(dfPreviewRows)
    /\ UNCHANGED dfOthers
    /\ LET r == dfPreviewRows[dfRowIdx] IN
       IF ~DFReady(r)
       THEN /\ dfResultRows' = Append(dfResultRows, r)
            /\ UNCHANGED dfDeleteCalls
       ELSE LET flvs == DFFlavorsOfRow(r) IN
            \E outcomes \in [1..Len(flvs) -> ApiOutcomes] :
               LET made == CallsMade(outcomes)
                   Ok(i) == outcomes[i] = "ok"
                   deleted_count == Cardinality({i \in 1..made : Ok(i)})
                   error == \E i \in 1..made : ~Ok(i)
                   new_status ==
                       IF deleted_count = r.flavors_deleted_count /\ ~error
                       THEN "DELETED"
                       ELSE IF deleted_count > 0 THEN "PARTIAL" ELSE "FAILED"
               IN  /\ dfDeleteCalls' =
                        dfDeleteCalls \o
                        [i \in 1..made |-> [entry |-> r.entry_id, flv |-> flvs[i]]]
                   /\ dfResultRows' =
                        Append(dfResultRows,
                               [r EXCEPT !.flavors_deleted_count = deleted_count,
                                         !.status = new_status,
                                         !.error = error])
    /\ dfRowIdx' = dfRowIdx + 1
    /\ UNCHANGED <<dfKeep, dfEntries, dfIdx, dfParent, dfChildren, dfPreviewRows,
                   dfPreviewCsv, dfAnswer, dfResultCsv, dfPc>>

\* main(): write_csv(RESULT_CSV, result_rows)
DFWriteResult ==
    /\ dfPc = "delete" /\ dfRowIdx > Len(dfPreviewRows)
    /\ UNCHANGED dfOthers
    /\ dfResultCsv' = CsvOf(dfResultRows)
    /\ dfPc' = "done"
    /\ UNCHANGED <<dfKeep, dfEntries, dfIdx, dfParent, dfChildren, dfPreviewRows,
                   dfPreviewCsv, dfAnswer, dfRowIdx, dfResultRows, dfDeleteCalls>>

DFNext ==
    \/ DFParentListFails
    \/ DFPlanParent
    \/ DFPlanChild
    \/ DFWritePreview
    \/ DFConfirm
    \/ DFProcessRow
    \/ DFWriteResult

\* The idle value of the delete-entries variables.
DEIdle ==
    /\ deEntryIds = <<>> /\ deIdx = 1 /\ deReport = <<>>
    /\ dePreviewCsv = CsvNone /\ deAnswer = NoAnswer /\ deRowIdx = 1
    /\ deResultCsv = CsvNone /\ deCalls = <<>> /\ dePc = "idle"

DFIdle ==
    /\ dfKeep = {} /\ dfEntries = <<>> /\ dfIdx = 1 /\ dfParent = ""
    /\ dfChildren = <<>> /\ dfPreviewRows = <<>> /\ dfPreviewCsv = CsvNone
    /\ dfAnswer = NoAnswer /\ dfRowIdx = 1 /\ dfResultRows = <<>>
    /\ dfResultCsv = CsvNone /\ dfDeleteCalls = <<>> /\ dfPc = "idle"

\* The idle value of the cue-point scripts' variables.
CPIdle ==
    /\ cpVersion = "new" /\ cpType = "" /\ cpEntryIds = <<>> /\ cpIdx = 1
    /\ cpCuePoints = <<>> /\ cpTotalDeleted = 0 /\ cpUserIds = {}
    /\ cpRows = <<>> /\ cpCsv = CsvNone /\ cpListCalls = <<>>
    /\ cpPrompts = <<>> /\ cpDeleteCalls = <<>> /\ ueIdx = 1
    /\ ueEntries = <<>> /\ ueListCalls = <<>> /\ ueDeleteCalls = <<>>
    /\ ueTotalDeleted = 0 /\ cpPc = "idle"

\* The idle value of the quiz-attempt scripts' variables.
BQIdle ==
    /\ bqVariant = "ALL" /\ bqEntryIds = <<>> /\ bqUserIds = <<>>
    /\ bqEntryIdx = 1 /\ bqUserIdx = 1 /\ bqPage = 1 /\ bqAttemptIds = <<>>
    /\ bqListReqs = <<>> /\ bqErrors = {} /\ bqAll = <<>> /\ bqAnswer = NoAnswer
    /\ bqDelIdx = 1 /\ bqDeleteReqs = <<>> /\ bqOkCount = 0
    /\ bqDeletedCount = 0 /\ bqReported = -1 /\ bqPc = "idle"

\* The idle value of duplicate-entries-across-pids' variables.
DUPIdle ==
    /\ dupParent = <<>> /\ dupImages = {} /\ dupEntryIds = <<>> /\ dupIdx = 1
    /\ dupEntries = <<>> /\ dupParentMap = <<>> /\ dupSorted = <<>>
    /\ dupMainIdx = 1 /\ dupMainCalls = <<>> /\ dupStack = <<>> /\ dupAdds = <<>>
    /\ dupMapping = <<>> /\ dupNextId = 1 /\ dupCsvEntries = <<>>
    /\ dupCsv = CsvNone /\ dupPc = "idle"

\* The idle value of the variables of duplicate-entries-across-pids.py, copy_cuepoints.
CQIdle ==
    /\ cqCopyAnswers = FALSE /\ cqSource = <<>> /\ cqCuepoints = <<>>
    /\ cqParentChildMap = <<>> /\ cqIdx = 1 /\ cqAddReqs = <<>> /\ cqMapping = <<>>
    /\ cqCopiedCount = 0 /\ cqListOk = FALSE /\ cqPc = "idle"

\* The idle value of the variables of media-retention/include-flavor-calculations.py.
IFCIdle ==
    /\ ifcRows = <<>> /\ ifcQueue = <<>> /\ ifcUnfinished = 0 /\ ifcResults = <<>>
    /\ ifcErrs = {} /\ ifcCounters = <<>> /\ ifcLock = "free" /\ ifcStop = FALSE
    /\ ifcW = <<>> /\ ifcMainPc = "idle" /\ ifcPutIdx = 1 /\ ifcOut = <<>>
    /\ ifcStores = <<>> /\ ifcWrites = {}

\* The idle value of the variables of operation loops of rename-entries, create-channels, clone-quizzes.
LPIdle ==
    /\ lpScript = "" /\ lpItems = <<>> /\ lpIdx = 0 /\ lpCalls = <<>>
    /\ lpRows = <<>> /\ lpPrinted = <<>> /\ lpPc = "idle"

\* The idle value of the variables of retry_call of media-retention-report.
RCIdle ==
    /\ rcAttempt = 0 /\ rcHistory = <<>> /\ rcWarnCounts = <<>>
    /\ rcSleeps = <<>> /\ rcErrRows = <<>> /\ rcRaised = <<>> /\ rcPc = "idle"

InitDF == DFInit /\ DEIdle /\ CPIdle /\ BQIdle /\ DUPIdle /\ CQIdle /\ IFCIdle /\ LPIdle /\ RCIdle

SpecDF == InitDF /\ [][DFNext]_vars

(***************************************************************************)
(* delete-entries/delete-entries.py                                        *)
(***************************************************************************)
MaxEntryIds == 3            \* entry ids given to a delete-entries run
DEEntryIds == {"a", "b"}    \* the ids they are drawn from

DEInit ==
    /\ deEntryIds \in SeqsUpTo(DEEntryIds, MaxEntryIds)
    /\ deIdx = 1
    /\ deReport = <<>>
    /\ dePreviewCsv = CsvNone
    /\ deAnswer = NoAnswer
    /\ deRowIdx = 1
    /\ deResultCsv = CsvNone
    /\ deCalls = <<>>
    /\ dePc = "collect"

\* Collect entry info: one turn of the loop over entry_ids.  Only a
\* KalturaException is caught; any other exception ends the script.
DECollect ==
    /\ dePc = "collect" /\ deIdx <= Len(deEntryIds)
    /\ UNCHANGED deOthers
    /\ \E outcome \in ApiOutcomes :
          IF outcome = "Exception"
          THEN dePc' = "crashed" /\ UNCHANGED <<deReport, deIdx>>
          ELSE /\ deReport' =
                    Append(deReport,
                           [entry_id |-> deEntryIds[deIdx],
                            status |-> IF outcome = "ok" THEN "FOUND"
                                       ELSE "NOT FOUND"])
               /\ deIdx' = deIdx + 1
               /\ UNCHANGED dePc
    /\ UNCHANGED <<deEntryIds, dePreviewCsv, deAnswer, deRowIdx, deResultCsv,
                   deCalls>>

\* all(r["status"] != "FOUND" for r in report)
DENoValidEntries(report) ==
    \A i \in 1..Len(report) : report[i].status # "FOUND"

\* No entry was found: the PREVIEW CSV is written and the script exits.
DEExitNoValid ==
    /\ dePc = "collect" /\ deIdx > Len(deEntryIds)
    /\ UNCHANGED deOthers
    /\ DENoValidEntries(deReport)
    /\ dePreviewCsv' = CsvOf(deReport)
    /\ dePc' = "done"
    /\ UNCHANGED <<deEntryIds, deIdx, deReport, deAnswer, deRowIdx,
                   deResultCsv, deCalls>>

\* As DEWritePreview, going on to the prompt without writing the report.
DEWritePreview_Skipped ==
    /\ dePc = "collect" /\ deIdx > Len(deEntryIds)
    /\ UNCHANGED deOthers
    /\ ~DENoValidEntries(deReport)
    /\ dePc' = "prompt"
    /\ UNCHANGED <<deEntryIds, deIdx, deReport, dePreviewCsv, deAnswer,
                   deRowIdx, deResultCsv, deCalls>>

\* Write to CSV: the PREVIEW report of a non-empty report.
DEWritePreview ==
    /\ dePc = "collect" /\ deIdx > Len(deEntryIds)
    /\ UNCHANGED deOthers
    /\ ~DENoValidEntries(deReport)
    /\ dePreviewCsv' = CsvOf(deReport)
    /\ dePc' = "prompt"
    /\ UNCHANGED <<deEntryIds, deIdx, deReport, deAnswer, deRowIdx,
                   deResultCsv, deCalls>>

\* As DEActionFor, deleting on any answer that is not RECYCLE.
DEActionFor_DefaultDelete(answer) ==
    IF Upper(Strip(answer)) = S_RECYCLE THEN "recycle" ELSE "delete"

\* match confirm.strip().upper(): the call the answer selects
DEActionFor(answer) ==
    CASE Upper(Strip(answer)) = S_DELETE -> "delete"
      [] Upper(Strip(answer)) = S_RECYCLE -> "recycle"
      [] OTHER -> "none"

\* Confirm: the typed confirmation.
DEConfirm ==
    /\ dePc = "prompt"
    /\ UNCHANGED deOthers
    /\ \E answer \in Answers :
          /\ deAnswer' = answer
          /\ dePc' = IF DEActionFor(answer) = "none" THEN "done" ELSE "delete"
    /\ UNCHANGED <<deEntryIds, deIdx, deReport, dePreviewCsv, deRowIdx,
                   deResultCsv, deCalls>>

\* As DESkipRow, never skipping a row.
DESkipRow_Never(row) == FALSE

\* row.get("status") != "FOUND": continue
DESkipRow(row) == row.status # "FOUND"

\* One turn of the loop over report: action_call(eid) for a FOUND row.  A
\* KalturaException marks the row; any other exception (raised by the call or
\* while reading its result) ends the script.
DEProcessRow ==
    /\ dePc = "delete" /\ deRowIdx <= Len(deReport)
    /\ UNCHANGED deOthers
    /\ LET row == deReport[deRowIdx]
           op == DEActionFor(deAnswer)
       IN  IF DESkipRow(row)
           THEN UNCHANGED <<deReport, deCalls, dePc>> /\ deRowIdx' = deRowIdx + 1
           ELSE /\ deCalls' = Append(deCalls, [op |-> op, row |-> deRowIdx,
                                               eid |-> row.entry_id])
                /\ \E outcome \in ApiOutcomes :
                      CASE outcome = "ok" ->
                             /\ deReport' =
                                  [deReport EXCEPT ![deRowIdx].status =
                                      IF op = "delete"
                                      THEN "DELETED - DisplayInSeach - Status"
                                      ELSE "RECYCLED - DisplayInSeach - Status"]
                             /\ deRowIdx' = deRowIdx + 1
                             /\ UNCHANGED dePc
                        [] outcome = "KalturaException" ->
                             /\ deReport' =
                                  [deReport EXCEPT ![deRowIdx].status =
                                      IF op = "delete" THEN "ALREADY DELETED"
                                      ELSE "ALREADY RECYCLED"]
                             /\ deRowIdx' = deRowIdx + 1
                             /\ UNCHANGED dePc
                        [] OTHER ->
                             /\ dePc' = "crashed"
                             /\ UNCHANGED <<deReport, deRowIdx>>
    /\ UNCHANGED <<deEntryIds, deIdx, dePreviewCsv, deAnswer, deResultCsv>>

\* Write results to CSV.
DEWriteResult ==
    /\ dePc = "delete" /\ deRowIdx > Len(deReport)
    /\ UNCHANGED deOthers
    /\ deResultCsv' = CsvOf(deReport)
    /\ dePc' = "done"
    /\ UNCHANGED <<deEntryIds, deIdx, deReport, dePreviewCsv, deAnswer,
                   deRowIdx, deCalls>>

DENext ==
    \/ DECollect
    \/ DEExitNoValid
    \/ DEWritePreview
    \/ DEConfirm
    \/ DEProcessRow
    \/ DEWriteResult

InitDE == DEInit /\ DFIdle /\ CPIdle /\ BQIdle /\ DUPIdle /\ CQIdle /\ IFCIdle /\ LPIdle /\ RCIdle

SpecDE == InitDE /\ [][DENext]_vars

(***************************************************************************)
(* delete-cuePoints.py ("old") and delete-cue-points/delete-cuePoints.py   *)
(* ("new")                                                                 *)
(***************************************************************************)
MaxCuePoints == 2       \* cue points returned by one cuePoint.list call
CPEntryIds == <<"a", "b">>   \* the entry ids typed, in order
CPUserIds == { <<"u">>, <<"v">> }
StartTimes == {0, 1}

T_THUMB == "thumbCuePoint.Thumb"
T_QUESTION == "quiz.QUIZ_QUESTION"
T_ANSWER == "quiz.QUIZ_ANSWER"

\* cue_point_types of main(): the types a valid choice selects
CuePointTypes == {T_THUMB, T_QUESTION, T_ANSWER}

\* The attributes the script reads of a cue point of the given type.
CuePointAttrs(type) ==
    [userId : IF type = T_ANSWER THEN CPUserIds ELSE {<<>>},
     startTime : IF type = T_THUMB THEN StartTimes ELSE {0}]

\* The answers cuePoint.list can give for the i-th entry of the loop.
CuePointLists(i, type) ==
    { [k \in 1..Len(f) |->
          [id |-> <<i, k>>, userId |-> f[k].userId, startTime |-> f[k].startTime]] :
      f \in SeqsUpTo(CuePointAttrs(type), MaxCuePoints) }

\* The answers userEntry.list(entryIdEqual, userIdIn) can give for the i-th
\* entry: the user entries (one per user) of some of the users that the
\* comma-separated filter names.
UserEntryLists(i, userIdIn) ==
    { [k \in 1..Len(f) |-> [id |-> <<i, k>>, userId |-> f[k]]] :
      f \in InjSeqsUpTo(Range(Split(userIdIn, ",")), Cardinality(CPUserIds)) }

CPInit ==
    /\ cpVersion \in {"old", "new"}
    /\ cpType \in CuePointTypes
    /\ cpEntryIds \in {SubSeq(CPEntryIds, 1, n) : n \in 1..Len(CPEntryIds)}
    /\ cpIdx = 1
    /\ cpCuePoints = <<>>
    /\ cpTotalDeleted = 0
    /\ cpUserIds = {}
    /\ cpRows = <<>>
    /\ cpCsv = CsvNone
    /\ cpListCalls = <<>>
    /\ cpPrompts = <<>>
    /\ cpDeleteCalls = <<>>
    /\ ueIdx = 1
    /\ ueEntries = <<>>
    /\ ueListCalls = <<>>
    /\ ueDeleteCalls = <<>>
    /\ ueTotalDeleted = 0
    /\ cpPc = "list"

cpConfig == <<cpVersion, cpType, cpEntryIds>>
ueState == <<ueIdx, ueEntries, ueListCalls, ueDeleteCalls, ueTotalDeleted>>
cpState == <<cpIdx, cpCuePoints, cpTotalDeleted, cpUserIds, cpRows, cpCsv,
             cpListCalls, cpDeleteCalls>>

IdsOf(objects) == [k \in 1..Len(objects) |-> objects[k].id]

\* list_and_delete_cue_points, one turn of the loop: baseEntry.get ("new") or
\* cuePoint.list raised; the except clauses print and the loop goes on.
CPEntryFails ==
    /\ cpPc = "list" /\ cpIdx <= Len(cpEntryIds)
    /\ UNCHANGED cpOthers
    /\ cpListCalls' = Append(cpListCalls,
                             [entry |-> cpIdx, listed |-> FALSE, ids |-> <<>>])
    /\ cpIdx' = cpIdx + 1
    /\ UNCHANGED <<cpCuePoints, cpTotalDeleted, cpUserIds, cpRows, cpCsv,
                   cpDeleteCalls, cpPrompts, cpPc>>
    /\ UNCHANGED <<cpConfig, ueState>>

\* list_and_delete_cue_points, one turn of the loop: the cue points of the
\* selected type are listed; the prompt follows when there are any.
CPListEntry ==
    /\ cpPc = "list" /\ cpIdx <= Len(cpEntryIds)
    /\ UNCHANGED cpOthers
    /\ \E cue_points \in CuePointLists(cpIdx, cpType) :
          /\ cpListCalls' =
                Append(cpListCalls,
                       [entry |-> cpIdx, listed |-> TRUE, ids |-> IdsOf(cue_points)])
          /\ IF cue_points = <<>>
             THEN cpIdx' = cpIdx + 1 /\ UNCHANGED <<cpCuePoints, cpPc>>
             ELSE cpCuePoints' = cue_points /\ cpPc' = "prompt" /\ UNCHANGED cpIdx
    /\ UNCHANGED <<cpTotalDeleted, cpUserIds, cpRows, cpCsv, cpDeleteCalls,
                   cpPrompts>>
    /\ UNCHANGED <<cpConfig, ueState>>

\* As CPConfirmed, taking every answer but "n" as consent.
CPConfirmed_NotNo(answer) == Lower(Strip(answer)) # <<"n">>

\* confirm = input(...).strip().lower(); confirm == 'y'
CPConfirmed(answer) == Lower(Strip(answer)) = S_y

\* list_and_delete_cue_points: the answer to "Delete them? (Y/N)".
CPAnswer ==
    /\ cpPc = "prompt"
    /\ UNCHANGED cpOthers
    /\ \E answer \in YesNoAnswers :
          /\ cpPrompts' = Append(cpPrompts, [phase |-> "cue", entry |-> cpIdx,
                                             answer |-> answer])
          /\ IF CPConfirmed(answer)
             THEN cpPc' = "deleting" /\ UNCHANGED <<cpIdx, cpCuePoints>>
             ELSE cpPc' = "list" /\ cpIdx' = cpIdx + 1 /\ cpCuePoints' = <<>>
    /\ UNCHANGED <<cpTotalDeleted, cpUserIds, cpRows, cpCsv, cpListCalls,
                   cpDeleteCalls>>
    /\ UNCHANGED <<cpConfig, ueState>>

\* The report row of a cue point ("new" version); key is x[4] of a chapter row.
CPRow(i, cue_point) == [entry |-> i, id |-> cue_point.id, key |-> cue_point.startTime]

\* list_and_delete_cue_points, one turn of the loop over cue_points.  "new":
\* the user id is collected and the row appended, then cuePoint.delete is
\* called; building the row may raise.  An exception ends this entry's turn.
CPDeleteCue ==
    /\ cpPc = "deleting" /\ cpCuePoints # <<>>
    /\ UNCHANGED cpOthers
    /\ LET cue_point == Head(cpCuePoints) IN
       \E outcome \in ApiOutcomes \cup (IF cpVersion = "new" THEN {"row raises"} ELSE {}) :
          /\ cpUserIds' = IF cpVersion = "new" /\ cpType = T_ANSWER
                          THEN cpUserIds \cup {cue_point.userId}
                          ELSE cpUserIds
          /\ cpRows' = IF cpVersion = "new" /\ outcome # "row raises"
                       THEN Append(cpRows, CPRow(cpIdx, cue_point))
                       ELSE cpRows
          /\ cpDeleteCalls' =
                IF outcome = "row raises" THEN cpDeleteCalls
                ELSE Append(cpDeleteCalls, [entry |-> cpIdx, id |-> cue_point.id,
                                            ok |-> outcome = "ok"])
          /\ IF outcome = "ok"
             THEN /\ cpTotalDeleted' = cpTotalDeleted + 1
                  /\ cpCuePoints' = Tail(cpCuePoints)
                  /\ UNCHANGED <<cpIdx, cpPc>>
             ELSE /\ cpCuePoints' = <<>>
                  /\ cpIdx' = cpIdx + 1
                  /\ cpPc' = "list"
                  /\ UNCHANGED cpTotalDeleted
    /\ UNCHANGED <<cpCsv, cpListCalls, cpPrompts>>
    /\ UNCHANGED <<cpConfig, ueState>>

\* list_and_delete_cue_points: the entry's cue points are done.
CPNextEntry ==
    /\ cpPc = "deleting" /\ cpCuePoints = <<>>
    /\ UNCHANGED cpOthers
    /\ cpIdx' = cpIdx + 1
    /\ cpPc' = "list"
    /\ UNCHANGED <<cpCuePoints, cpTotalDeleted, cpUserIds, cpRows, cpCsv,
                   cpListCalls, cpDeleteCalls, cpPrompts>>
    /\ UNCHANGED <<cpConfig, ueState>>

\* As RunsUserEntryPhase, for every cue point type.
RunsUserEntryPhase_AnyType(type, user_ids) == TRUE

\* main(), step 4: selected_type == "quiz.QUIZ_ANSWER" and user_ids_to_delete
RunsUserEntryPhase(type, user_ids) == type = T_ANSWER /\ user_ids # {}

\* End of list_and_delete_cue_points: "new" sorts the chapter rows, writes
\* the CSV report and main() goes on to the user entries of quiz answers.
CPFinish ==
    /\ cpPc = "list" /\ cpIdx > Len(cpEntryIds)
    /\ UNCHANGED cpOthers
    /\ IF cpVersion = "new"
       THEN /\ cpRows' = IF cpType = T_THUMB THEN SortByKey(cpRows) ELSE cpRows
            /\ cpCsv' = CsvOf(cpRows')
            /\ cpPc' = IF RunsUserEntryPhase(cpType, cpUserIds)
                       THEN "ue_list" ELSE "done"
       ELSE /\ cpPc' = "done"
            /\ UNCHANGED <<cpRows, cpCsv>>
    /\ UNCHANGED <<cpIdx, cpCuePoints, cpTotalDeleted, cpUserIds, cpListCalls,
                   cpDeleteCalls, cpPrompts>>
    /\ UNCHANGED <<cpConfig, ueState>>

\* user_entry_filter.userIdIn = ','.join(user_ids)
UserIdIn(user_ids) == Join(SetToSeq(user_ids), ",")

\* list_and_delete_user_entries, one turn of the loop: userEntry.list raised.
UEEntryFails ==
    /\ cpPc = "ue_list" /\ ueIdx <= Len(cpEntryIds)
    /\ UNCHANGED cpOthers
    /\ ueIdx' = ueIdx + 1
    /\ UNCHANGED <<ueEntries, ueListCalls, ueDeleteCalls, ueTotalDeleted,
                   cpPrompts, cpPc>>
    /\ UNCHANGED <<cpConfig, cpState>>

\* list_and_delete_user_entries, one turn of the loop: the user entries of
\* the collected users are listed; the prompt follows when there are any.
UEListEntry ==
    /\ cpPc = "ue_list" /\ ueIdx <= Len(cpEntryIds)
    /\ UNCHANGED cpOthers
    /\ \E user_entries \in UserEntryLists(ueIdx, UserIdIn(cpUserIds)) :
          /\ ueListCalls' =
                Append(ueListCalls,
                       [entry |-> ueIdx, userIdIn |-> UserIdIn(cpUserIds),
                        ids |-> IdsOf(user_entries)])
          /\ IF user_entries = <<>>
             THEN ueIdx' = ueIdx + 1 /\ UNCHANGED <<ueEntries, cpPc>>
             ELSE ueEntries' = user_entries /\ cpPc' = "ue_prompt" /\ UNCHANGED ueIdx
    /\ UNCHANGED <<ueDeleteCalls, ueTotalDeleted, cpPrompts>>
    /\ UNCHANGED <<cpConfig, cpState>>

\* confirm = input(...).strip().lower(); confirm == 'y'
UEConfirmed(answer) == Lower(Strip(answer)) = S_y

\* list_and_delete_user_entries: the answer to "Delete them? (Y/N)".
UEAnswer ==
    /\ cpPc = "ue_prompt"
    /\ UNCHANGED cpOthers
    /\ \E answer \in YesNoAnswers :
          /\ cpPrompts' = Append(cpPrompts, [phase |-> "user", entry |-> ueIdx,
                                             answer |-> answer])
          /\ IF UEConfirmed(answer)
             THEN cpPc' = "ue_deleting" /\ UNCHANGED <<ueIdx, ueEntries>>
             ELSE cpPc' = "ue_list" /\ ueIdx' = ueIdx + 1 /\ ueEntries' = <<>>
    /\ UNCHANGED <<ueListCalls, ueDeleteCalls, ueTotalDeleted>>
    /\ UNCHANGED <<cpConfig, cpState>>

\* list_and_delete_user_entries, one turn of the loop over user_entries.
UEDelete ==
    /\ cpPc = "ue_deleting" /\ ueEntries # <<>>
    /\ UNCHANGED cpOthers
    /\ \E outcome \in ApiOutcomes :
          /\ ueDeleteCalls' =
                Append(ueDeleteCalls, [entry |-> ueIdx, id |-> Head(ueEntries).id,
                                       ok |-> outcome = "ok"])
          /\ IF outcome = "ok"
             THEN /\ ueTotalDeleted' = ueTotalDeleted + 1
                  /\ ueEntries' = Tail(ueEntries)
                  /\ UNCHANGED <<ueIdx, cpPc>>
             ELSE /\ ueEntries' = <<>>
                  /\ ueIdx' = ueIdx + 1
                  /\ cpPc' = "ue_list"
                  /\ UNCHANGED ueTotalDeleted
    /\ UNCHANGED <<ueListCalls, cpPrompts>>
    /\ UNCHANGED <<cpConfig, cpState>>

\* list_and_delete_user_entries: the entry's user entries are done.
UENextEntry ==
    /\ cpPc = "ue_deleting" /\ ueEntries = <<>>
    /\ UNCHANGED cpOthers
    /\ ueIdx' = ueIdx + 1
    /\ cpPc' = "ue_list"
    /\ UNCHANGED <<ueEntries, ueListCalls, ueDeleteCalls, ueTotalDeleted, cpPrompts>>
    /\ UNCHANGED <<cpConfig, cpState>>

\* list_and_delete_user_entries returns; main() prints the totals.
UEFinish ==
    /\ cpPc = "ue_list" /\ ueIdx > Len(cpEntryIds)
    /\ UNCHANGED cpOthers
    /\ cpPc' = "done"
    /\ UNCHANGED <<ueState, cpPrompts>>
    /\ UNCHANGED <<cpConfig, cpState>>

CPNext ==
    \/ CPEntryFails
    \/ CPListEntry
    \/ CPAnswer
    \/ CPDeleteCue
    \/ CPNextEntry
    \/ CPFinish
    \/ UEEntryFails
    \/ UEListEntry
    \/ UEAnswer
    \/ UEDelete
    \/ UENextEntry
    \/ UEFinish

InitCP == CPInit /\ DFIdle /\ DEIdle /\ BQIdle /\ DUPIdle /\ CQIdle /\ IFCIdle /\ LPIdle /\ RCIdle

SpecCP == InitCP /\ [][CPNext]_vars

(***************************************************************************)
(* Batch-Delete-Quiz-Attempts/batch-delete-quiz-attempts-ALL.py ("ALL")    *)
(* and batch-delete-quiz-attempts.py ("users")                             *)
(***************************************************************************)
MaxPages == 2               \* non-empty pages the server holds for an entry
PageLens == {1, 2}          \* items of a non-empty response
BQEntryIds == <<"a", "b">>  \* the lines of the entry id file
BQUserIds == <<"u", "v">>   \* the lines of the user id file

\* What the operator may type at the (yes/no) prompt.
BQAnswers == { S_yes, <<"Y","E","S"," ">>, S_y, <<"n","o">>, <<>> }

\* What a request can end as: a 200 response without <error>, a 200 response
\* with <error>, a 200 response that is not XML, another status, or an
\* exception raised by requests.post.
HttpOutcomes == {"200 ok", "200 error", "200 unparsable", "non-200", "raises"}

\* The ids of the n items of a response.
AttemptIds(entry, user, page, n) ==
    [k \in 1..n |-> <<entry, user, page, k>>]

BQInit ==
    /\ bqVariant \in {"ALL", "users"}
    /\ bqEntryIds \in {SubSeq(BQEntryIds, 1, n) : n \in 0..Len(BQEntryIds)}
    /\ bqUserIds \in IF bqVariant = "users"
                     THEN {SubSeq(BQUserIds, 1, n) : n \in 0..Len(BQUserIds)}
                     ELSE {<<>>}
    /\ bqEntryIdx = 1
    /\ bqUserIdx = 1
    /\ bqPage = 1
    /\ bqAttemptIds = <<>>
    /\ bqListReqs = <<>>
    /\ bqErrors = {}
    /\ bqAll = <<>>
    /\ bqAnswer = NoAnswer
    /\ bqDelIdx = 1
    /\ bqDeleteReqs = <<>>
    /\ bqOkCount = 0
    /\ bqDeletedCount = 0
    /\ bqReported = -1
    /\ bqPc = "collect"

bqConfig == <<bqVariant, bqEntryIds, bqUserIds>>
bqDeletion == <<bqAnswer, bqDelIdx, bqDeleteReqs, bqOkCount, bqDeletedCount,
                bqReported>>

NextPage_Same(page_index) == page_index

\* get_quiz_attempt_ids: `page_index += 1`.
NextPage(page_index) == page_index + 1

\* "ALL": one request of the loop of get_quiz_attempt_ids.  A failed request
\* raises, and main() logs the error for the entry; an empty page ends the
\* loop, and main() appends the returned ids to all_attempt_ids.
BQListPage ==
    /\ bqPc = "collect" /\ bqVariant = "ALL" /\ bqEntryIdx <= Len(bqEntryIds)
    /\ UNCHANGED bqOthers
    /\ \E outcome \in HttpOutcomes, n \in {0} \cup PageLens :
          /\ bqListReqs' = Append(bqListReqs,
                [entry |-> bqEntryIdx, user |-> 0, page |-> bqPage,
                 ok |-> (outcome = "200 ok"), items |-> n])
          /\ IF outcome # "200 ok"
             THEN /\ n = 0
                  /\ bqErrors' = bqErrors \cup {<<bqEntryIdx, 0>>}
                  /\ bqEntryIdx' = bqEntryIdx + 1
                  /\ bqPage' = 1 /\ bqAttemptIds' = <<>>
                  /\ UNCHANGED bqAll
             ELSE IF n = 0
             THEN /\ bqAll' = bqAll \o bqAttemptIds
                  /\ bqEntryIdx' = bqEntryIdx + 1
                  /\ bqPage' = 1 /\ bqAttemptIds' = <<>>
                  /\ UNCHANGED bqErrors
             ELSE /\ bqPage <= MaxPages
                  /\ bqAttemptIds' =
                        bqAttemptIds \o AttemptIds(bqEntryIdx, 0, bqPage, n)
                  /\ bqPage' = NextPage(bqPage)
                  /\ UNCHANGED <<bqEntryIdx, bqErrors, bqAll>>
    /\ UNCHANGED <<bqUserIdx, bqPc>>
    /\ UNCHANGED <<bqConfig, bqDeletion>>

\* "users": get_quiz_attempt_ids(ks, entry_id, user_id), a single request, and
\* the turn of main()'s inner loop that calls it.
BQListUser ==
    /\ bqPc = "collect" /\ bqVariant = "users" /\ bqEntryIdx <= Len(bqEntryIds)
    /\ bqUserIdx <= Len(bqUserIds)
    /\ UNCHANGED bqOthers
    /\ \E outcome \in HttpOutcomes, n \in {0} \cup PageLens :
          /\ bqListReqs' = Append(bqListReqs,
                [entry |-> bqEntryIdx, user |-> bqUserIdx, page |-> 1,
                 ok |-> (outcome = "200 ok"), items |-> n])
          /\ IF outcome # "200 ok"
             THEN /\ n = 0
                  /\ bqErrors' = bqErrors \cup {<<bqEntryIdx, bqUserIdx>>}
                  /\ UNCHANGED bqAll
             ELSE /\ bqAll' = bqAll \o AttemptIds(bqEntryIdx, bqUserIdx, 1, n)
                  /\ UNCHANGED bqErrors
    /\ bqUserIdx' = bqUserIdx + 1
    /\ UNCHANGED <<bqEntryIdx, bqPage, bqAttemptIds, bqPc>>
    /\ UNCHANGED <<bqConfig, bqDeletion>>

\* "users": the inner loop over user_ids is over; next entry.
BQNextEntry ==
    /\ bqPc = "collect" /\ bqVariant = "users" /\ bqEntryIdx <= Len(bqEntryIds)
    /\ bqUserIdx > Len(bqUserIds)
    /\ UNCHANGED bqOthers
    /\ bqEntryIdx' = bqEntryIdx + 1
    /\ bqUserIdx' = 1
    /\ UNCHANGED <<bqPage, bqAttemptIds, bqListReqs, bqErrors, bqAll, bqPc>>
    /\ UNCHANGED <<bqConfig, bqDeletion>>

\* As BQProceed, taking "y" as well.
BQProceed_AlsoY(answer) == Lower(Strip(answer)) \in {S_yes, S_y}

\* proceed = input(...).strip().lower(); proceed == 'yes'
BQProceed(answer) == Lower(Strip(answer)) = S_yes

\* main(): the prompt that follows collection.
BQConfirm ==
    /\ bqPc = "collect" /\ bqEntryIdx > Len(bqEntryIds)
    /\ UNCHANGED bqOthers
    /\ \E answer \in BQAnswers :
          /\ bqAnswer' = answer
          /\ bqPc' = IF BQProceed(answer) THEN "delete" ELSE "done"
    /\ UNCHANGED <<bqEntryIdx, bqUserIdx, bqPage, bqAttemptIds, bqListReqs,
                   bqErrors, bqAll, bqDelIdx, bqDeleteReqs, bqOkCount,
                   bqDeletedCount, bqReported>>
    /\ UNCHANGED bqConfig

\* As delete_quiz_attempt, taking every 200 response as success.
delete_quiz_attempt_Any200(outcome) ==
    outcome \in {"200 ok", "200 error", "200 unparsable"}

\* delete_quiz_attempt: True for a 200 response that parses and has no <error>
delete_quiz_attempt(outcome) == outcome = "200 ok"

\* main(): one turn of the deletion loop.  An exception raised by
\* requests.post is not caught and ends the script.
BQDelete ==
    /\ bqPc = "delete" /\ bqDelIdx <= Len(bqAll)
    /\ UNCHANGED bqOthers
    /\ bqDeleteReqs' = Append(bqDeleteReqs, bqAll[bqDelIdx])
    /\ \E outcome \in HttpOutcomes :
          IF outcome = "raises"
          THEN /\ bqPc' = "crashed"
               /\ UNCHANGED <<bqDelIdx, bqOkCount, bqDeletedCount>>
          ELSE /\ bqDelIdx' = bqDelIdx + 1
               /\ bqOkCount' = bqOkCount + (IF outcome = "200 ok" THEN 1 ELSE 0)
               /\ bqDeletedCount' =
                     bqDeletedCount + (IF delete_quiz_attempt(outcome) THEN 1 ELSE 0)
               /\ UNCHANGED bqPc
    /\ UNCHANGED <<bqEntryIdx, bqUserIdx, bqPage, bqAttemptIds, bqListReqs,
                   bqErrors, bqAll, bqAnswer, bqReported>>
    /\ UNCHANGED bqConfig

\* main(): the deletion loop is over; deleted_count is printed.
BQReport ==
    /\ bqPc = "delete" /\ bqDelIdx > Len(bqAll)
    /\ UNCHANGED bqOthers
    /\ bqReported' = bqDeletedCount
    /\ bqPc' = "done"
    /\ UNCHANGED <<bqEntryIdx, bqUserIdx, bqPage, bqAttemptIds, bqListReqs,
                   bqErrors, bqAll, bqAnswer, bqDelIdx, bqDeleteReqs, bqOkCount,
                   bqDeletedCount>>
    /\ UNCHANGED bqConfig

BQNext ==
    \/ BQListPage
    \/ BQListUser
    \/ BQNextEntry
    \/ BQConfirm
    \/ BQDelete
    \/ BQReport

InitBQ == BQInit /\ DFIdle /\ DEIdle /\ CPIdle /\ DUPIdle /\ CQIdle /\ IFCIdle /\ LPIdle /\ RCIdle

SpecBQ == InitBQ /\ [][BQNext]_vars

(***************************************************************************)
(* duplicate-entries-across-pids/duplicate-entries-across-pids.py          *)
(***************************************************************************)
DupIds == {"a", "b", "c"}   \* the entries of the source partner
NoParent == ""              \* an empty parentEntryId
NoDest == 0                 \* an empty (or unset) destination entry id

\* The entry reached from x by n steps up the hierarchy f.
RECURSIVE Up(_, _, _)
Up(f, x, n) ==
    IF n = 0 \/ x = NoParent THEN x ELSE Up(f, f[x], n - 1)

\* The hierarchies of the source partner: every chain of parents ends.
Hierarchies ==
    { f \in [DupIds -> DupIds \cup {NoParent}] :
        \A x \in DupIds : Up(f, x, Cardinality(DupIds)) = NoParent }

\* d with d[k] = v, as the dict assignment d[k] = v.
DictSet(d, k, v) ==
    [x \in DOMAIN d \cup {k} |-> IF x = k THEN v ELSE d[x]]

\* d.get(k, default)
DictGet(d, k, default) == IF k \in DOMAIN d THEN d[k] ELSE default

\* As get_depth, without following parent_map.
get_depth_Flat(current_id, parent_map) == 0

\* get_sorted_entries.get_depth: the length of the chain through parent_map
RECURSIVE get_depth(_, _)
get_depth(current_id, parent_map) ==
    IF current_id \in DOMAIN parent_map
    THEN 1 + get_depth(parent_map[current_id], parent_map)
    ELSE 0

\* sorted(entries, key=get_depth)
sorted_entries(entries, parent_map) ==
    LET keyed == [i \in 1..Len(entries) |->
                    [key |-> get_depth(entries[i], parent_map), val |-> entries[i]]]
        s == SortByKey(keyed)
    IN [i \in 1..Len(entries) |-> s[i].val]

\* The responses baseEntry.list can give get_child_entries: the children of
\* parent_entry_id, in any order.
ChildLists(parent_entry_id) ==
    LET kids == {x \in DupIds : dupParent[x] = parent_entry_id}
    IN {q \in InjSeqsUpTo(kids, Cardinality(kids)) : Len(q) = Cardinality(kids)}

DUPInit ==
    /\ dupParent \in Hierarchies
    /\ dupImages \in SUBSET DupIds
    /\ dupEntryIds \in InjSeqsUpTo(DupIds, Cardinality(DupIds))
    /\ dupIdx = 1
    /\ dupEntries = <<>>
    /\ dupParentMap = <<>>
    /\ dupSorted = <<>>
    /\ dupMainIdx = 1
    /\ dupMainCalls = <<>>
    /\ dupStack = <<>>
    /\ dupAdds = <<>>
    /\ dupMapping = <<>>
    /\ dupNextId = 1
    /\ dupCsvEntries = <<>>
    /\ dupCsv = CsvNone
    /\ dupPc = "start"

dupSource == <<dupParent, dupImages, dupEntryIds>>
dupRetrieval == <<dupIdx, dupEntries, dupParentMap, dupSorted>>
dupCopying == <<dupMainIdx, dupMainCalls, dupStack, dupAdds, dupMapping,
                dupNextId, dupCsvEntries>>

\* main(): get_entries found nothing (or failed): the script exits.
DUPNoEntries ==
    /\ dupPc = "start" /\ dupEntryIds = <<>>
    /\ UNCHANGED dupOthers
    /\ dupPc' = "done"
    /\ UNCHANGED <<dupSource, dupRetrieval, dupCopying, dupCsv>>

\* main(): entries were found; get_sorted_entries is called.
DUPFound ==
    /\ dupPc = "start" /\ dupEntryIds # <<>>
    /\ UNCHANGED dupOthers
    /\ dupPc' = "retrieve"
    /\ UNCHANGED <<dupSource, dupRetrieval, dupCopying, dupCsv>>

\* get_sorted_entries: one turn of the retrieval loop.
DUPRetrieve ==
    /\ dupPc = "retrieve" /\ dupIdx <= Len(dupEntryIds)
    /\ UNCHANGED dupOthers
    /\ LET entry_id == dupEntryIds[dupIdx] IN
       \E outcome \in {"ok", "Exception"} :
          IF outcome = "ok"
          THEN /\ dupEntries' = Append(dupEntries, entry_id)
               /\ dupParentMap' =
                     IF dupParent[entry_id] # NoParent
                     THEN DictSet(dupParentMap, entry_id, dupParent[entry_id])
                     ELSE dupParentMap
          ELSE UNCHANGED <<dupEntries, dupParentMap>>
    /\ dupIdx' = dupIdx + 1
    /\ UNCHANGED <<dupSource, dupSorted, dupCopying, dupCsv, dupPc>>

\* get_sorted_entries: the sort and the return to main().
DUPSort ==
    /\ dupPc = "retrieve" /\ dupIdx > Len(dupEntryIds)
    /\ UNCHANGED dupOthers
    /\ dupSorted' = IF dupEntries = <<>> THEN <<>>
                    ELSE sorted_entries(dupEntries, dupParentMap)
    /\ dupPc' = "copy"
    /\ UNCHANGED <<dupSource, dupIdx, dupEntries, dupParentMap, dupCopying, dupCsv>>

\* The row main() stores in csv_entries.
CsvEntry(entry_id, dest) ==
    [source_id |-> entry_id, parent_id |-> dupParent[entry_id], dest_id |-> dest]

\* csv_entries[entry.id] = row
CsvEntriesSet(csv_entries, row) ==
    IF \E i \in 1..Len(csv_entries) : csv_entries[i].source_id = row.source_id
    THEN [i \in 1..Len(csv_entries) |->
            IF csv_entries[i].source_id = row.source_id THEN row ELSE csv_entries[i]]
    ELSE Append(csv_entries, row)

\* copy_entry(entry) up to its recursion, called by main() (fromMain) or by
\* the copy_entry on top of the stack.  A call that returns at once returns
\* to its caller in the same step.
CopyEntry(entry_id, fromMain) ==
    LET back(copied) ==
            \* the caller goes on: main() stores the row of a copied entry
            IF fromMain
            THEN /\ dupMainIdx' = dupMainIdx + 1
                 /\ dupCsvEntries' =
                       IF copied # NoDest
                       THEN CsvEntriesSet(dupCsvEntries, CsvEntry(entry_id, copied))
                       ELSE dupCsvEntries
                 /\ UNCHANGED dupStack
            ELSE /\ dupStack' =
                       [dupStack EXCEPT ![Len(dupStack)].kids = Tail(@)]
                 /\ UNCHANGED <<dupMainIdx, dupCsvEntries>>
        called(frame) ==
            \* the call goes on to copy the children
            /\ dupStack' = Append(dupStack, frame)
            /\ UNCHANGED <<dupMainIdx, dupCsvEntries>>
    IN
    \E outcome \in {"media.get raises", "add raises", "added",
                    "added, a later call raises", "added, no children listed"} :
       IF outcome = "media.get raises"
       THEN /\ dupPc' = "crashed"
            /\ UNCHANGED <<dupStack, dupAdds, dupMapping, dupNextId, dupMainIdx,
                           dupCsvEntries>>
       ELSE IF entry_id \in dupImages
       THEN \* mediaType 2: media.add in a try block, no parentEntryId, no
            \* entry_id_mapping, no children
            /\ outcome \in {"add raises", "added"}
            /\ UNCHANGED <<dupMapping, dupPc>>
            /\ IF outcome = "added"
               THEN /\ dupAdds' = Append(dupAdds,
                          [src |-> entry_id, dest |-> dupNextId,
                           parent |-> NoDest, ok |-> TRUE])
                    /\ dupNextId' = dupNextId + 1
                    /\ back(dupNextId)
               ELSE /\ dupAdds' = Append(dupAdds,
                          [src |-> entry_id, dest |-> NoDest,
                           parent |-> NoDest, ok |-> FALSE])
                    /\ UNCHANGED dupNextId
                    /\ back(NoDest)
       ELSE LET parentEntryId ==
                    IF dupParent[entry_id] # NoParent
                    THEN DictGet(dupMapping, dupParent[entry_id], NoDest)
                    ELSE NoDest
            IN
            IF outcome = "add raises"
            THEN /\ dupAdds' = Append(dupAdds,
                       [src |-> entry_id, dest |-> NoDest,
                        parent |-> parentEntryId, ok |-> FALSE])
                 /\ dupPc' = "crashed"
                 /\ UNCHANGED <<dupStack, dupMapping, dupNextId, dupMainIdx,
                                dupCsvEntries>>
            ELSE /\ dupAdds' = Append(dupAdds,
                       [src |-> entry_id, dest |-> dupNextId,
                        parent |-> parentEntryId, ok |-> TRUE])
                 /\ dupMapping' = DictSet(dupMapping, entry_id, dupNextId)
                 /\ dupNextId' = dupNextId + 1
                 /\ IF outcome = "added, a later call raises"
                    THEN /\ dupPc' = "crashed"
                         /\ UNCHANGED <<dupStack, dupMainIdx, dupCsvEntries>>
                    ELSE /\ UNCHANGED dupPc
                         /\ \E kids \in IF outcome = "added"
                                        THEN ChildLists(entry_id) ELSE {<<>>} :
                               called([id |-> entry_id, dest |-> dupNextId,
                                       kids |-> kids])

\* main(): the next turn of the copy loop calls copy_entry.
DUPMainCopy ==
    /\ dupPc = "copy" /\ dupStack = <<>> /\ dupMainIdx <= Len(dupSorted)
    /\ UNCHANGED dupOthers
    /\ dupMainCalls' = Append(dupMainCalls, dupSorted[dupMainIdx])
    /\ CopyEntry(dupSorted[dupMainIdx], TRUE)
    /\ UNCHANGED <<dupSource, dupRetrieval, dupCsv>>

\* copy_entry: the recursive call for the next child.
DUPChildCopy ==
    /\ dupPc = "copy" /\ dupStack # <<>>
    /\ dupStack[Len(dupStack)].kids # <<>>
    /\ UNCHANGED dupOthers
    /\ LET child == Head(dupStack[Len(dupStack)].kids) IN
       CopyEntry(child, FALSE)
    /\ UNCHANGED <<dupSource, dupRetrieval, dupMainCalls, dupCsv>>

\* copy_entry: all the children are copied; return copied_entry.  The return
\* value of a recursive call is dropped; main() stores the row.
DUPReturn ==
    /\ dupPc = "copy" /\ dupStack # <<>>
    /\ dupStack[Len(dupStack)].kids = <<>>
    /\ UNCHANGED dupOthers
    /\ LET frame == dupStack[Len(dupStack)]
           rest == SubSeq(dupStack, 1, Len(dupStack) - 1)
       IN IF rest = <<>>
          THEN /\ dupStack' = <<>>
               /\ dupMainIdx' = dupMainIdx + 1
               /\ dupCsvEntries' =
                     CsvEntriesSet(dupCsvEntries, CsvEntry(frame.id, frame.dest))
          ELSE /\ dupStack' = [rest EXCEPT ![Len(rest)].kids = Tail(@)]
               /\ UNCHANGED <<dupMainIdx, dupCsvEntries>>
    /\ UNCHANGED <<dupSource, dupRetrieval, dupMainCalls, dupAdds, dupMapping,
                   dupNextId, dupCsv, dupPc>>

\* write_to_csv(csv_entries): the file is written once per entry, each time
\* with every entry; nothing is written for an empty dict.
write_to_csv(entries) ==
    IF entries = <<>> THEN CsvNone ELSE CsvOf(entries)

\* main(): the copy loop is over; the CSV is written.
DUPWriteCsv ==
    /\ dupPc = "copy" /\ dupStack = <<>> /\ dupMainIdx > Len(dupSorted)
    /\ UNCHANGED dupOthers
    /\ dupCsv' = write_to_csv(dupCsvEntries)
    /\ dupPc' = "done"
    /\ UNCHANGED <<dupSource, dupRetrieval, dupCopying>>

DUPNext ==
    \/ DUPNoEntries
    \/ DUPFound
    \/ DUPRetrieve
    \/ DUPSort
    \/ DUPMainCopy
    \/ DUPChildCopy
    \/ DUPReturn
    \/ DUPWriteCsv

InitDUP == DUPInit /\ DFIdle /\ DEIdle /\ CPIdle /\ BQIdle /\ CQIdle /\ IFCIdle /\ LPIdle /\ RCIdle

SpecDUP == InitDUP /\ [][DUPNext]_vars

(***************************************************************************)
(* duplicate-entries-across-pids: get_cuepoints and copy_cuepoints         *)
(***************************************************************************)
MaxCues == 3                \* cue points of the source entry
T_UNKNOWN == "other.Unknown"    \* a type that cue_type_map does not hold
CQTypes == {T_QUESTION, T_ANSWER, T_THUMB, T_UNKNOWN}

\* The cue points cuePoint.list can return for the source entry: the id is
\* the position, parentId is 0 (none) or the id of the first cue point.
CQSourceLists ==
    UNION { { [k \in 1..n |-> [id |-> k, cuePointType |-> t[k], parentId |-> p[k]]] :
                t \in [1..n -> CQTypes], p \in [1..n -> {0, 1}] } : n \in 0..MaxCues }

\* get_cuepoints, the list returned: the answers are left out unless
\* COPY_QUIZ_ANSWERS
get_cuepoints(objects, copy_quiz_answers) ==
    LET kept(cp) == ~(cp.cuePointType = T_ANSWER /\ ~copy_quiz_answers)
    IN SelectSeq(objects, kept)

\* get_cuepoints, parent_child_map: the ids of the stored answers by parentId
parent_child_map(objects, copy_quiz_answers) ==
    LET parents == {objects[k].parentId : k \in
                       {i \in 1..Len(objects) :
                           /\ objects[i].cuePointType = T_ANSWER
                           /\ copy_quiz_answers
                           /\ objects[i].parentId # 0}}
        child(cp, par) == cp.cuePointType = T_ANSWER /\ cp.parentId = par
    IN [par \in parents |->
          LET c(cp) == child(cp, par) IN IdsOf(SelectSeq(objects, c))]

CQInit ==
    /\ cqCopyAnswers \in BOOLEAN
    /\ cqSource \in CQSourceLists
    /\ cqCuepoints = <<>>
    /\ cqParentChildMap = <<>>
    /\ cqIdx = 1
    /\ cqAddReqs = <<>>
    /\ cqMapping = <<>>
    /\ cqCopiedCount = 0
    /\ cqListOk = FALSE
    /\ cqPc = "get"

\* copy_cuepoints: the call of get_cuepoints.  An exception of the listing
\* is caught there and gives [], {}.
CQGetCuepoints ==
    /\ cqPc = "get"
    /\ UNCHANGED cqOthers
    /\ \E outcome \in {"ok", "Exception"} :
          IF outcome = "ok"
          THEN /\ cqCuepoints' = get_cuepoints(cqSource, cqCopyAnswers)
               /\ cqParentChildMap' = parent_child_map(cqSource, cqCopyAnswers)
               /\ cqListOk' = TRUE
          ELSE /\ cqCuepoints' = <<>>
               /\ cqParentChildMap' = <<>>
               /\ cqListOk' = FALSE
    /\ cqPc' = "loop"
    /\ UNCHANGED <<cqCopyAnswers, cqSource, cqIdx, cqAddReqs, cqMapping,
                   cqCopiedCount>>

\* copy_cuepoints: if cue_type_str == "quiz.QUIZ_ANSWER": continue
SkippedInPass(cue_type_str) == cue_type_str = T_ANSWER

\* copy_cuepoints: one turn of the loop over cuepoints.  An unknown type makes
\* create_cue_point_instance raise ValueError, which nothing catches; a failed
\* cuePoint.add is caught and the loop goes on.
CQCopyCue ==
    /\ cqPc = "loop" /\ cqIdx <= Len(cqCuepoints)
    /\ UNCHANGED cqOthers
    /\ LET cue == cqCuepoints[cqIdx] IN
       IF SkippedInPass(cue.cuePointType)
       THEN /\ cqIdx' = cqIdx + 1
            /\ UNCHANGED <<cqAddReqs, cqMapping, cqCopiedCount, cqPc>>
       ELSE IF cue.cuePointType = T_UNKNOWN
       THEN /\ cqPc' = "crashed"
            /\ UNCHANGED <<cqIdx, cqAddReqs, cqMapping, cqCopiedCount>>
       ELSE \E outcome \in {"ok", "Exception"} :
               /\ cqAddReqs' = Append(cqAddReqs,
                     [src |-> cue.id, cuePointType |-> cue.cuePointType,
                      ok |-> outcome = "ok"])
               /\ IF outcome = "ok"
                  THEN /\ cqMapping' = DictSet(cqMapping, cue.id, Len(cqAddReqs) + 1)
                       /\ cqCopiedCount' = cqCopiedCount + 2
                  ELSE UNCHANGED <<cqMapping, cqCopiedCount>>
               /\ cqIdx' = cqIdx + 1
               /\ UNCHANGED cqPc
    /\ UNCHANGED <<cqCopyAnswers, cqSource, cqCuepoints, cqParentChildMap, cqListOk>>

\* copy_cuepoints: the loop is over; copied_count is returned.
CQReturn ==
    /\ cqPc = "loop" /\ cqIdx > Len(cqCuepoints)
    /\ UNCHANGED cqOthers
    /\ cqPc' = "done"
    /\ UNCHANGED <<cqCopyAnswers, cqSource, cqCuepoints, cqParentChildMap, cqIdx,
                   cqAddReqs, cqMapping, cqCopiedCount, cqListOk>>

CQNext ==
    \/ CQGetCuepoints
    \/ CQCopyCue
    \/ CQReturn

InitCQ == CQInit /\ DFIdle /\ DEIdle /\ CPIdle /\ BQIdle /\ DUPIdle /\ IFCIdle /\ LPIdle /\ RCIdle

SpecCQ == InitCQ /\ [][CQNext]_vars

(***************************************************************************)
(* media-retention/include-flavor-calculations.py: WorkerPool, enrich_csv  *)
(* The main thread and the worker threads take one step at a time; a step  *)
(* is one statement on shared state (the queue, the dicts, the lock).      *)
(* Rows are numbered from 1 (idx + 1 of enumerate).                        *)
(***************************************************************************)
MaxRows == 2                \* data rows of the input CSV
WorkerIds == {"w1", "w2"}       \* the threads pool.start() creates
IFCPairs == {<<0, 0>>, <<2, 7>>}  \* what compute_counts_and_bytes can return
LockFree == "free"
MainThread == "main"

\* queue.Queue(maxsize=workers * 4)
QueueMaxSize == Cardinality(WorkerIds) * 4

\* The rows of the input CSV: whether the status holds "no media".
IFCInputs ==
    UNION { [1..n -> [no_media : BOOLEAN]] : n \in 0..MaxRows }

IFCInit ==
    /\ ifcRows \in IFCInputs
    /\ ifcQueue = <<>>
    /\ ifcUnfinished = 0
    /\ ifcResults = <<>>
    /\ ifcErrs = {}
    /\ ifcCounters = [processed |-> 0, fast_processed |-> 0, api_processed |-> 0,
                      queued |-> 0]
    /\ ifcLock = LockFree
    /\ ifcStop = FALSE
    /\ ifcW = [w \in WorkerIds |-> [pc |-> "create", idx |-> 0, next |-> ""]]
    /\ ifcMainPc = "put"
    /\ ifcPutIdx = 1
    /\ ifcOut = <<>>
    /\ ifcStores = <<>>
    /\ ifcWrites = {}

ifcMain == <<ifcMainPc, ifcPutIdx, ifcOut>>
ifcShared == <<ifcQueue, ifcUnfinished, ifcResults, ifcErrs, ifcCounters, ifcLock,
               ifcStop, ifcStores, ifcWrites>>

\* The write of a worker thread to a shared attribute, and whether the thread
\* holds pool.lock while it writes.
Written(w, target) ==
    ifcWrites \cup {[target |-> target, locked |-> ifcLock = w]}

\* WorkerPool._run: client = self.client_factory().  An exception of
\* get_client ends the thread.
IFCCreateClient(w) ==
    /\ ifcW[w].pc = "create"
    /\ UNCHANGED ifcOthers
    /\ \E outcome \in {"ok", "Exception"} :
          ifcW' = [ifcW EXCEPT ![w].pc = IF outcome = "ok" THEN "get" ELSE "dead"]
    /\ UNCHANGED <<ifcRows, ifcMain, ifcShared>>

\* WorkerPool._run: self.q.get(timeout=0.25) returns an item.  (On
\* queue.Empty the loop goes round without a change of state.)
IFCGet(w) ==
    /\ ifcW[w].pc = "get" /\ ~ifcStop /\ ifcQueue # <<>>
    /\ UNCHANGED ifcOthers
    /\ ifcW' = [ifcW EXCEPT ![w] = [pc |-> "try", idx |-> Head(ifcQueue), next |-> ""]]
    /\ ifcQueue' = Tail(ifcQueue)
    /\ UNCHANGED <<ifcRows, ifcMain, ifcUnfinished, ifcResults, ifcErrs, ifcCounters,
                   ifcLock, ifcStop, ifcStores, ifcWrites>>

\* WorkerPool._run: the loop condition finds _stop set; the thread ends.
IFCExit(w) ==
    /\ ifcW[w].pc = "get" /\ ifcStop
    /\ UNCHANGED ifcOthers
    /\ ifcW' = [ifcW EXCEPT ![w].pc = "exited"]
    /\ UNCHANGED <<ifcRows, ifcMain, ifcShared>>

\* compute_counts_and_bytes: (0, 0) when the flavor listing fails
compute_counts_and_bytes(listing, pair) ==
    IF listing = "Exception" THEN <<0, 0>> ELSE pair

\* WorkerPool._run, the try block up to the store: self.results[idx] = (0, 0)
\* for a "no media" row, else the pair compute_counts_and_bytes returns; or
\* an exception before anything is stored.
IFCProcess(w) ==
    /\ ifcW[w].pc = "try"
    /\ UNCHANGED ifcOthers
    /\ LET idx == ifcW[w].idx IN
       \E outcome \in {"stored", "raises"}, listing \in {"ok", "Exception"},
          pair \in IFCPairs :
          IF outcome = "raises"
          THEN /\ listing = "ok" /\ pair = <<0, 0>>
               /\ ifcW' = [ifcW EXCEPT ![w].pc = "except"]
               /\ UNCHANGED <<ifcResults, ifcStores, ifcWrites>>
          ELSE LET value == IF ifcRows[idx].no_media THEN <<0, 0>>
                            ELSE compute_counts_and_bytes(listing, pair)
               IN /\ ifcRows[idx].no_media => (listing = "ok" /\ pair = <<0, 0>>)
                  /\ ifcResults' = DictSet(ifcResults, idx, value)
                  /\ ifcStores' = Append(ifcStores, [idx |-> idx, value |-> value, by |-> w])
                  /\ ifcWrites' = Written(w, "results")
                  /\ ifcW' = [ifcW EXCEPT ![w].pc = "acquire",
                                          ![w].next = IF ifcRows[idx].no_media
                                                      THEN "fast_processed"
                                                      ELSE "api_processed"]
    /\ UNCHANGED <<ifcRows, ifcMain, ifcQueue, ifcUnfinished, ifcErrs, ifcCounters,
                   ifcLock, ifcStop>>

\* WorkerPool._run, except Exception: self.errs[idx] = str(ex);
\* self.results[idx] = (0, 0)
IFCExcept(w) ==
    /\ ifcW[w].pc = "except"
    /\ UNCHANGED ifcOthers
    /\ LET idx == ifcW[w].idx IN
       /\ ifcErrs' = ifcErrs \cup {idx}
       /\ ifcResults' = DictSet(ifcResults, idx, <<0, 0>>)
       /\ ifcStores' = Append(ifcStores, [idx |-> idx, value |-> <<0, 0>>, by |-> w])
       /\ ifcWrites' = Written(w, "errs") \cup Written(w, "results")
    /\ ifcW' = [ifcW EXCEPT ![w].pc = "acquire", ![w].next = "processed"]
    /\ UNCHANGED <<ifcRows, ifcMain, ifcQueue, ifcUnfinished, ifcCounters, ifcLock,
                   ifcStop>>

\* with self.lock: the thread takes the lock when it is free.
IFCAcquire(w) ==
    /\ ifcW[w].pc = "acquire" /\ ifcLock = LockFree
    /\ UNCHANGED ifcOthers
    /\ ifcLock' = w
    /\ ifcW' = [ifcW EXCEPT ![w].pc = "count"]
    /\ UNCHANGED <<ifcRows, ifcMain, ifcQueue, ifcUnfinished, ifcResults, ifcErrs,
                   ifcCounters, ifcStop, ifcStores, ifcWrites>>

\* WorkerPool._run: the counter of the with block is incremented and the lock
\* released: fast_processed or api_processed, then (finally) processed.
IFCCount(w) ==
    /\ ifcW[w].pc = "count"
    /\ UNCHANGED ifcOthers
    /\ LET c == ifcW[w].next IN
       /\ ifcCounters' = [ifcCounters EXCEPT ![c] = @ + 1]
       /\ ifcWrites' = Written(w, c)
       /\ ifcLock' = LockFree
       /\ ifcW' = IF c = "processed"
                  THEN [ifcW EXCEPT ![w].pc = "task_done"]
                  ELSE [ifcW EXCEPT ![w].pc = "acquire", ![w].next = "processed"]
    /\ UNCHANGED <<ifcRows, ifcMain, ifcQueue, ifcUnfinished, ifcResults, ifcErrs,
                   ifcStop, ifcStores>>

\* WorkerPool._run, finally: self.q.task_done()
IFCTaskDone(w) ==
    /\ ifcW[w].pc = "task_done"
    /\ UNCHANGED ifcOthers
    /\ ifcUnfinished' = ifcUnfinished - 1
    /\ ifcW' = [ifcW EXCEPT ![w].pc = "get"]
    /\ UNCHANGED <<ifcRows, ifcMain, ifcQueue, ifcResults, ifcErrs, ifcCounters,
                   ifcLock, ifcStop, ifcStores, ifcWrites>>

\* enrich_csv: in_rows.append(row); pool.q.put((idx, row)), which waits while
\* the queue is full.
IFCPut ==
    /\ ifcMainPc = "put" /\ ifcPutIdx <= Len(ifcRows)
    /\ Len(ifcQueue) < QueueMaxSize
    /\ UNCHANGED ifcOthers
    /\ ifcQueue' = Append(ifcQueue, ifcPutIdx)
    /\ ifcUnfinished' = ifcUnfinished + 1
    /\ ifcMainPc' = "acquire"
    /\ UNCHANGED <<ifcRows, ifcW, ifcPutIdx, ifcOut, ifcResults, ifcErrs, ifcCounters,
                   ifcLock, ifcStop, ifcStores, ifcWrites>>

\* enrich_csv: with pool.lock
IFCMainAcquire ==
    /\ ifcMainPc = "acquire" /\ ifcLock = LockFree
    /\ UNCHANGED ifcOthers
    /\ ifcLock' = MainThread
    /\ ifcMainPc' = "count"
    /\ UNCHANGED <<ifcRows, ifcW, ifcPutIdx, ifcOut, ifcQueue, ifcUnfinished,
                   ifcResults, ifcErrs, ifcCounters, ifcStop, ifcStores, ifcWrites>>

\* enrich_csv: pool.queued += 1, and the lock is released
IFCQueuedInc ==
    /\ ifcMainPc = "count"
    /\ UNCHANGED ifcOthers
    /\ ifcCounters' = [ifcCounters EXCEPT !.queued = @ + 1]
    /\ ifcLock' = LockFree
    /\ ifcPutIdx' = ifcPutIdx + 1
    /\ ifcMainPc' = "put"
    /\ UNCHANGED <<ifcRows, ifcW, ifcOut, ifcQueue, ifcUnfinished, ifcResults,
                   ifcErrs, ifcStop, ifcStores, ifcWrites>>

\* As JoinReturns, without waiting.
JoinReturns_AtOnce(unfinished) == TRUE

\* queue.Queue.join returns when no task is unfinished
JoinReturns(unfinished) == unfinished = 0

\* enrich_csv: every row is queued; pool.q.join() returns.
IFCJoin ==
    /\ ifcMainPc = "put" /\ ifcPutIdx > Len(ifcRows)
    /\ JoinReturns(ifcUnfinished)
    /\ UNCHANGED ifcOthers
    /\ ifcMainPc' = "write"
    /\ UNCHANGED <<ifcRows, ifcW, ifcPutIdx, ifcOut, ifcShared>>

\* enrich_csv: one row is written with pool.results.get(idx, (0, 0)).
IFCWriteRow ==
    /\ ifcMainPc = "write" /\ Len(ifcOut) < Len(ifcRows)
    /\ UNCHANGED ifcOthers
    /\ LET idx == Len(ifcOut) + 1 IN
       ifcOut' = Append(ifcOut, [idx |-> idx,
                                 value |-> DictGet(ifcResults, idx, <<0, 0>>)])
    /\ UNCHANGED <<ifcRows, ifcW, ifcMainPc, ifcPutIdx, ifcShared>>

\* enrich_csv: pool.stop() sets _stop; the function returns.
IFCStop ==
    /\ ifcMainPc = "write" /\ Len(ifcOut) = Len(ifcRows)
    /\ UNCHANGED ifcOthers
    /\ ifcStop' = TRUE
    /\ ifcMainPc' = "done"
    /\ UNCHANGED <<ifcRows, ifcW, ifcPutIdx, ifcOut, ifcQueue, ifcUnfinished,
                   ifcResults, ifcErrs, ifcCounters, ifcLock, ifcStores, ifcWrites>>

IFCWorker(w) ==
    \/ IFCCreateClient(w)
    \/ IFCGet(w)
    \/ IFCExit(w)
    \/ IFCProcess(w)
    \/ IFCExcept(w)
    \/ IFCAcquire(w)
    \/ IFCCount(w)
    \/ IFCTaskDone(w)

IFCMain ==
    \/ IFCPut
    \/ IFCMainAcquire
    \/ IFCQueuedInc
    \/ IFCJoin
    \/ IFCWriteRow
    \/ IFCStop

IFCNext ==
    \/ \E w \in WorkerIds : IFCWorker(w)
    \/ IFCMain

InitIFC == IFCInit /\ DFIdle /\ DEIdle /\ CPIdle /\ BQIdle /\ DUPIdle /\ CQIdle /\ LPIdle /\ RCIdle

SpecIFC == InitIFC /\ [][IFCNext]_vars

\* Fair scheduling: a thread that can take a step, or can again and again,
\* takes it.
IFCFairness ==
    /\ \A w \in WorkerIds : SF_vars(IFCWorker(w))
    /\ SF_vars(IFCMain)

SpecIFCFair == InitIFC /\ [][IFCNext]_vars /\ IFCFairness

(***************************************************************************)
(* The operation loops of rename-entries, create-channels and              *)
(* clone-quizzes.  Each loop walks the selected items and calls the API    *)
(* for every one of them; the model records every call, every result row   *)
(* and every message an except clause prints.                              *)
(***************************************************************************)

MaxItems == 2

LPIds == {"x", "y", "z"}

LPScripts == {"rename-entries", "create-channels", "clone-quizzes"}

\* What a call of the SDK can do: return, raise KalturaException, or raise
\* another exception (a network error, for example).
LPOutcomes == {"ok", "KalturaException", "Exception"}

\* The member lists of a create-channels row.
LPMembers == {<<>>, <<"m">>}

\* The selected items: distinct ids, each with a member list that only
\* create-channels reads.  The rows of create-channels have passed the
\* validation loop, so their privacy is one of 1, 2, 3.
LPItemLists(script) ==
    {s \in SeqsUpTo([id : LPIds, members : LPMembers], MaxItems) :
        /\ Len(s) >= 1
        /\ \A i, j \in 1..Len(s) : i # j => s[i].id # s[j].id
        /\ script # "create-channels" => \A i \in 1..Len(s) : s[i].members = <<>>}

LPInit ==
    /\ lpScript \in LPScripts
    /\ lpItems \in LPItemLists(lpScript)
    /\ lpIdx = 1
    /\ lpCalls = <<>>
    /\ lpRows = <<>>
    /\ lpPrinted = <<>>
    /\ lpPc = "loop"

\* rename-entries, one turn of `for e in entries`: baseEntry.update is called
\* outside any try, so an exception ends the script.
LPRenameEntry ==
    /\ lpPc = "loop" /\ lpScript = "rename-entries" /\ lpIdx <= Len(lpItems)
    /\ UNCHANGED lpOthers
    /\ \E outcome \in LPOutcomes :
         LET e == lpItems[lpIdx] IN
         /\ lpCalls' = Append(lpCalls,
                [item |-> e.id, call |-> "baseEntry.update", outcome |-> outcome])
         /\ IF outcome = "ok"
            THEN /\ lpRows' = Append(lpRows, e.id)
                 /\ lpIdx' = lpIdx + 1
                 /\ lpPc' = "loop"
            ELSE /\ lpPc' = "crashed"
                 /\ UNCHANGED <<lpRows, lpIdx>>
    /\ UNCHANGED <<lpScript, lpItems, lpPrinted>>

\* create-channels, one turn of `for row in reader`: category.add and then one
\* categoryUser.add per member, all outside any try.
LPCreateChannel ==
    /\ lpPc = "loop" /\ lpScript = "create-channels" /\ lpIdx <= Len(lpItems)
    /\ UNCHANGED lpOthers
    /\ \E outcome \in LPOutcomes, memberOutcome \in LPOutcomes :
         LET row == lpItems[lpIdx]
             add == [item |-> row.id, call |-> "category.add", outcome |-> outcome]
             userAdds == [k \in 1..Len(row.members) |->
                            [item |-> row.id, call |-> "categoryUser.add",
                             outcome |-> memberOutcome]]
         IN
         IF outcome # "ok"
         THEN /\ lpCalls' = Append(lpCalls, add)
              /\ lpPc' = "crashed"
              /\ UNCHANGED <<lpRows, lpIdx>>
         ELSE /\ lpCalls' = Append(lpCalls, add) \o userAdds
              /\ IF row.members # <<>> /\ memberOutcome # "ok"
                 THEN /\ lpPc' = "crashed"
                      /\ UNCHANGED <<lpRows, lpIdx>>
                 ELSE /\ lpRows' = Append(lpRows, row.id)
                      /\ lpIdx' = lpIdx + 1
                      /\ lpPc' = "loop"
    /\ UNCHANGED <<lpScript, lpItems, lpPrinted>>

\* clone-quizzes, one turn of `for eid in entry_ids`: the call of
\* clone_entry_with_quizzes is inside a try whose except clauses print a
\* message, and the loop goes on.
LPCloneQuiz ==
    /\ lpPc = "loop" /\ lpScript = "clone-quizzes" /\ lpIdx <= Len(lpItems)
    /\ UNCHANGED lpOthers
    /\ \E outcome \in LPOutcomes :
         LET eid == lpItems[lpIdx].id IN
         /\ lpCalls' = Append(lpCalls,
                [item |-> eid, call |-> "clone_entry_with_quizzes",
                 outcome |-> outcome])
         /\ IF outcome = "ok"
            THEN /\ lpRows' = Append(lpRows, eid)
                 /\ UNCHANGED lpPrinted
            ELSE /\ lpPrinted' = Append(lpPrinted, eid)
                 /\ UNCHANGED lpRows
    /\ lpIdx' = lpIdx + 1
    /\ UNCHANGED <<lpScript, lpItems, lpPc>>

\* The loop has walked every item.
LPLoopEnd ==
    /\ lpPc = "loop" /\ lpIdx > Len(lpItems)
    /\ UNCHANGED lpOthers
    /\ lpPc' = "done"
    /\ UNCHANGED <<lpScript, lpItems, lpIdx, lpCalls, lpRows, lpPrinted>>

LPNext ==
    \/ LPRenameEntry
    \/ LPCreateChannel
    \/ LPCloneQuiz
    \/ LPLoopEnd

InitLP == LPInit /\ DFIdle /\ DEIdle /\ CPIdle /\ BQIdle /\ DUPIdle /\ CQIdle /\ IFCIdle /\ RCIdle

SpecLP == InitLP /\ [][LPNext]_vars


(***************************************************************************)
(* media-retention-report: _classify_warn, _is_retryable_error and         *)
(* retry_call.  The text of an exception is modelled by the set of the     *)
(* marker substrings it contains, which is all the two classifiers read.   *)
(***************************************************************************)

\* HTTP_RETRIES, an environment knob (7 when unset); kept small here.
RETRIES == 2

\* The substrings the classifiers look for in str(ex).
RCMarkers ==
    {"NameResolutionError", "Failed to resolve", "Read timed out",
     "Operation timed out", "Max retries exceeded", "HTTPSConnectionPool",
     "NoneType", "has no attribute"}

\* The exceptions fn can raise: the markers str(ex) contains, whether ex is a
\* KalturaClientException, and its code.
RCExceptions ==
    [msg : SUBSET RCMarkers, isClientException : BOOLEAN, code : {-4, -2}]

_classify_warn(ex) ==
    LET s == ex.msg IN
    IF "NameResolutionError" \in s \/ "Failed to resolve" \in s THEN "dns"
    ELSE IF "Read timed out" \in s \/ "Operation timed out" \in s THEN "timeout"
    ELSE IF "Max retries exceeded" \in s \/ "HTTPSConnectionPool" \in s THEN "http"
    ELSE IF "NoneType" \in s /\ "has no attribute" \in s THEN "sdk_none"
    ELSE "other"

\* "object has no attribute" contains "has no attribute", so the second test
\* of the NoneType clause adds nothing.
_is_retryable_error(ex) ==
    LET s == ex.msg IN
    \/ "Read timed out" \in s
    \/ "Operation timed out" \in s
    \/ "HTTPSConnectionPool" \in s
    \/ "Max retries exceeded" \in s
    \/ ("NoneType" \in s /\ "has no attribute" \in s)
    \/ (ex.isClientException /\ ex.code \in {-4})

_bump_warn(counts, ex) ==
    [counts EXCEPT ![_classify_warn(ex)] = @ + 1]

GivesUp_OneMore(attempt, is_retryable) ==
    attempt > RETRIES + 1 \/ ~is_retryable

\* retry_call: `if attempt > RETRIES or not is_retryable`.
GivesUp(attempt, is_retryable) ==
    attempt > RETRIES \/ ~is_retryable

RCInit ==
    /\ rcAttempt = 0
    /\ rcHistory = <<>>
    /\ rcWarnCounts = [k \in {"dns", "sdk_none", "timeout", "http", "other"} |-> 0]
    /\ rcSleeps = <<>>
    /\ rcErrRows = <<>>
    /\ rcRaised = <<>>
    /\ rcPc = "call"

\* One turn of `while True` in which fn returns: retry_call returns its value.
RCReturns ==
    /\ rcPc = "call"
    /\ UNCHANGED rcOthers
    /\ rcHistory' = Append(rcHistory,
            [ok |-> TRUE, kind |-> "", retryable |-> FALSE])
    /\ rcPc' = "returned"
    /\ UNCHANGED <<rcAttempt, rcWarnCounts, rcSleeps, rcErrRows, rcRaised>>

\* One turn of `while True` in which fn raises ex: count it, classify it, and
\* either log one error row and re-raise, or sleep and go round again.  The
\* error log path is set before any row is processed.
RCRaises ==
    /\ rcPc = "call"
    /\ UNCHANGED rcOthers
    /\ \E ex \in RCExceptions :
         LET attempt == rcAttempt + 1
             is_retryable == _is_retryable_error(ex)
             rec == [ok |-> FALSE, kind |-> _classify_warn(ex),
                     retryable |-> is_retryable]
         IN
         /\ rcAttempt' = attempt
         /\ rcWarnCounts' = _bump_warn(rcWarnCounts, ex)
         /\ rcHistory' = Append(rcHistory, rec)
         /\ IF GivesUp(attempt, is_retryable)
            THEN /\ rcErrRows' = Append(rcErrRows, rec)
                 /\ rcRaised' = <<rec>>
                 /\ rcPc' = "raised"
                 /\ UNCHANGED rcSleeps
            ELSE /\ rcSleeps' = Append(rcSleeps, attempt)
                 /\ rcPc' = "call"
                 /\ UNCHANGED <<rcErrRows, rcRaised>>

RCNext ==
    \/ RCReturns
    \/ RCRaises

InitRC == RCInit /\ DFIdle /\ DEIdle /\ CPIdle /\ BQIdle /\ DUPIdle /\ CQIdle /\ IFCIdle /\ LPIdle

SpecRC == InitRC /\ [][RCNext]_vars


(***************************************************************************)
(* Claims about delete-flavors                                             *)
(***************************************************************************)
DFRowIds(r) == Range(Split(r.flavors_to_delete, ","))

\* C1: for every planned entry (parent or child) with two or more flavors,
\* the flavor chosen as the source is not in that entry's flavors_to_delete
\* and is never passed to flavorAsset.delete.
C1_SourceFlavorKept ==
    \A i \in 1..Len(dfPreviewRows) :
       LET r == dfPreviewRows[i] IN
       (r.total_flavors >= 2 /\ r.source_flavor_id # <<>>) =>
          /\ r.source_flavor_id \notin DFRowIds(r)
          /\ \A k \in 1..Len(dfDeleteCalls) :
                dfDeleteCalls[k].entry = r.entry_id =>
                   dfDeleteCalls[k].flv # r.source_flavor_id

\* A finished run that deleted two flavors of a three-flavor parent and
\* flavors of its child.
C1_Witness ==
    /\ dfPc = "done" /\ dfResultCsv.written
    /\ \E i, j \in 1..Len(dfPreviewRows) :
          /\ dfPreviewRows[i].role = "PARENT" /\ dfPreviewRows[j].role = "CHILD"
          /\ dfPreviewRows[i].total_flavors = 3
          /\ dfPreviewRows[i].flavors_deleted_count = 2
          /\ dfPreviewRows[j].status = "READY"
          /\ \E k, l \in 1..Len(dfDeleteCalls) :
                /\ dfDeleteCalls[k].entry = dfPreviewRows[i].entry_id
                /\ dfDeleteCalls[l].entry = dfPreviewRows[j].entry_id

\* C2: flavorAsset.delete is called only once the answer, stripped and
\* upper-cased, is DELETE; for any other answer there is no delete call and no
\* RESULT CSV; every id passed to delete is listed in flavors_to_delete of a
\* READY row of the PREVIEW CSV, which is written before the prompt is
\* answered.
C2_DeleteOnlyAfterDELETE ==
    /\ dfAnswer # NoAnswer => dfPreviewCsv.written
    /\ Upper(Strip(dfAnswer)) # S_DELETE =>
          dfDeleteCalls = <<>> /\ ~dfResultCsv.written
    /\ \A k \in 1..Len(dfDeleteCalls) :
          \E i \in 1..Len(dfPreviewCsv.rows) :
             /\ dfPreviewCsv.rows[i].status = "READY"
             /\ dfPreviewCsv.rows[i].entry_id = dfDeleteCalls[k].entry
             /\ dfDeleteCalls[k].flv \in DFRowIds(dfPreviewCsv.rows[i])

\* A run confirmed by " delete\n" that made delete calls and wrote the RESULT
\* CSV.
C2_Witness ==
    /\ dfPc = "done" /\ dfResultCsv.written /\ dfDeleteCalls # <<>>
    /\ dfAnswer # S_DELETE

(***************************************************************************)
(* Claims about delete-entries                                             *)
(***************************************************************************)
DEIds(rows) == [i \in 1..Len(rows) |-> rows[i].entry_id]

\* C3: baseEntry.delete is called only if the answer, stripped and
\* upper-cased, is DELETE, and baseEntry.recycle only if it is RECYCLE; for
\* any other answer no call is made and the RESULT CSV is not written.
C3_CallMatchesAnswer ==
    /\ \A k \in 1..Len(deCalls) :
          /\ deCalls[k].op = "delete" => Upper(Strip(deAnswer)) = S_DELETE
          /\ deCalls[k].op = "recycle" => Upper(Strip(deAnswer)) = S_RECYCLE
    /\ Upper(Strip(deAnswer)) \notin {S_DELETE, S_RECYCLE} =>
          deCalls = <<>> /\ ~deResultCsv.written

\* A run confirmed by "recycle " that recycled two entries and wrote the
\* RESULT CSV.
C3_Witness ==
    /\ dePc = "done" /\ deResultCsv.written
    /\ deAnswer # S_RECYCLE
    /\ Len(deCalls) >= 2
    /\ \A k \in 1..Len(deCalls) : deCalls[k].op = "recycle"

\* C4 as stated: at the end of a run, an entry id whose baseEntry.get raised
\* was never passed to delete or recycle and is a row of both the PREVIEW and
\* the RESULT report.
C4_Original ==
    dePc = "done" =>
       \A i \in 1..Len(deReport) :
          deReport[i].status = "NOT FOUND" =>
             /\ \A k \in 1..Len(deCalls) : deCalls[k].eid # deReport[i].entry_id
             /\ dePreviewCsv.written
             /\ deReport[i].entry_id \in Range(DEIds(dePreviewCsv.rows))
             /\ deResultCsv.written
             /\ deReport[i].entry_id \in Range(DEIds(deResultCsv.rows))

\* C4 amended: a report row whose baseEntry.get raised (status NOT FOUND) is
\* never passed to delete or recycle; it is a row of the PREVIEW report at the
\* end of every run, and a NOT FOUND row of the RESULT report whenever the
\* RESULT report is written.
C4_NotFoundRowsSkipped ==
    /\ \A k \in 1..Len(deCalls) :
          /\ dePreviewCsv.written
          /\ dePreviewCsv.rows[deCalls[k].row].status = "FOUND"
          /\ dePreviewCsv.rows[deCalls[k].row].entry_id = deCalls[k].eid
    /\ \A i \in 1..Len(deReport) :
          deReport[i].status = "NOT FOUND" =>
             /\ dePc = "done" =>
                   /\ dePreviewCsv.written
                   /\ Len(dePreviewCsv.rows) = Len(deReport)
                   /\ dePreviewCsv.rows[i] = deReport[i]
             /\ deResultCsv.written =>
                   /\ Len(deResultCsv.rows) = Len(deReport)
                   /\ deResultCsv.rows[i] = deReport[i]

\* A finished run whose RESULT report holds a NOT FOUND row between two rows
\* that were deleted.
C4_Witness ==
    /\ dePc = "done" /\ deResultCsv.written
    /\ Len(deReport) = 3
    /\ deReport[2].status = "NOT FOUND"
    /\ Len(deCalls) = 2

\* C5: in every run that makes a delete or recycle call, the PREVIEW report
\* listing all selected entries was written before the first call.
C5_PreviewBeforeCalls ==
    deCalls # <<>> =>
       /\ dePreviewCsv.written
       /\ DEIds(dePreviewCsv.rows) = deEntryIds

\* The first call of a run over three ids has just been made.
C5_Witness ==
    /\ Len(deCalls) = 1 /\ dePc = "delete"
    /\ Len(deEntryIds) = 3
    /\ \E i \in 1..Len(deReport) : deReport[i].status = "NOT FOUND"

(***************************************************************************)
(* Claims about the cue-point scripts                                      *)
(***************************************************************************)
CuePhaseOver == cpPc \in {"ue_list", "ue_prompt", "ue_deleting", "done"}

SaidYes(phase, i) ==
    \E p \in 1..Len(cpPrompts) :
       /\ cpPrompts[p].phase = phase /\ cpPrompts[p].entry = i
       /\ Lower(Strip(cpPrompts[p].answer)) = S_y

\* C6: in both versions cuePoint.delete is called for an entry's listed cue
\* points only if the operator answered y (any case, stripped) to that
\* entry's prompt; any other answer skips that entry only: every later entry
\* is still listed, prompted when it has cue points, and processed on y
\* (cuePoint.delete is called for its first cue point, unless building that
\* cue point's report row raised).
C6_CueDeleteOnlyOnYes ==
    /\ \A k \in 1..Len(cpDeleteCalls) :
          /\ SaidYes("cue", cpDeleteCalls[k].entry)
          /\ \E l \in 1..Len(cpListCalls) :
                /\ cpListCalls[l].entry = cpDeleteCalls[k].entry
                /\ cpDeleteCalls[k].id \in Range(cpListCalls[l].ids)
    /\ CuePhaseOver =>
          \A i \in 1..Len(cpEntryIds) :
             \E l \in 1..Len(cpListCalls) :
                /\ cpListCalls[l].entry = i
                /\ cpListCalls[l].ids # <<>> =>
                      \E p \in 1..Len(cpPrompts) :
                         /\ cpPrompts[p].phase = "cue" /\ cpPrompts[p].entry = i
                         /\ Lower(Strip(cpPrompts[p].answer)) = S_y =>
                               \/ \E k \in 1..Len(cpDeleteCalls) :
                                     /\ cpDeleteCalls[k].entry = i
                                     /\ cpDeleteCalls[k].id = cpListCalls[l].ids[1]
                               \/ /\ cpVersion = "new"
                                  /\ \A r \in 1..Len(cpRows) :
                                        cpRows[r].id # cpListCalls[l].ids[1]

\* The old script finished: the first entry's prompt was answered "yes" (not
\* y) and skipped, the second was answered " Y " and its cue points deleted.
C6_Witness ==
    /\ cpVersion = "old" /\ cpPc = "done"
    /\ Len(cpPrompts) = 2
    /\ cpPrompts[1].answer = S_yes
    /\ cpPrompts[2].answer = <<" ", "Y", " ">>
    /\ Len(cpDeleteCalls) = 2
    /\ \A k \in 1..2 : cpDeleteCalls[k].entry = 2 /\ cpDeleteCalls[k].ok

\* C7: userEntry.list/delete happen only for quiz.QUIZ_ANSWER and only once
\* the cue-point phase of all entries is over; every user entry deleted was
\* listed for its entry with the collected user ids as filter, after a y
\* answer to that entry's prompt.
C7_UserEntriesOnlyForAnswers ==
    /\ (ueListCalls # <<>> \/ ueDeleteCalls # <<>>) =>
          /\ cpType = T_ANSWER
          /\ CuePhaseOver /\ cpIdx > Len(cpEntryIds) /\ cpCsv.written
    /\ \A k \in 1..Len(ueDeleteCalls) :
          /\ SaidYes("user", ueDeleteCalls[k].entry)
          /\ \E l \in 1..Len(ueListCalls) :
                /\ ueListCalls[l].entry = ueDeleteCalls[k].entry
                /\ ueDeleteCalls[k].id \in Range(ueListCalls[l].ids)
                /\ Range(Split(ueListCalls[l].userIdIn, ",")) = cpUserIds
    /\ cpUserIds \subseteq CPUserIds

\* A finished quiz-answer run that collected two users, skipped the user
\* entries of one entry and deleted those of the other.
C7_Witness ==
    /\ cpPc = "done" /\ cpType = T_ANSWER
    /\ Cardinality(cpUserIds) = 2
    /\ \E k \in 1..Len(ueDeleteCalls) : ueDeleteCalls[k].ok
    /\ \E p \in 1..Len(cpPrompts) :
          /\ cpPrompts[p].phase = "user"
          /\ Lower(Strip(cpPrompts[p].answer)) # S_y

\* C8 as stated: the CSV report holds exactly one row per cue point whose
\* cuePoint.delete call succeeded and none for any other cue point, so the
\* number of data rows is total_deleted.
C8_RowsAreDeletedCuePoints ==
    cpCsv.written =>
       /\ Len(cpCsv.rows) = cpTotalDeleted
       /\ \A k \in 1..Len(cpDeleteCalls) :
             cpDeleteCalls[k].ok <=>
                \E r \in 1..Len(cpCsv.rows) : cpCsv.rows[r].id = cpDeleteCalls[k].id

C11_ParentIsMappedParent ==
    [][ (/\ Len(dupAdds') = Len(dupAdds) + 1
         /\ dupAdds'[Len(dupAdds')].ok
         /\ dupParent[dupAdds'[Len(dupAdds')].src] \in DOMAIN dupMapping)
        => dupAdds'[Len(dupAdds')].parent =
              dupMapping[dupParent[dupAdds'[Len(dupAdds')].src]] ]_vars

\* C12 as stated: at the end of a run the CSV holds one row (source id,
\* destination id) for every destination entry created during the run, the
\* children copied by the recursive call of copy_entry included.
C12_CsvRowPerCreatedEntry ==
    dupPc = "done" =>
       /\ \A i \in 1..Len(dupAdds) :
             dupAdds[i].ok =>
                \E r \in 1..Len(dupCsv.rows) :
                   /\ dupCsv.rows[r].source_id = dupAdds[i].src
                   /\ dupCsv.rows[r].dest_id = dupAdds[i].dest
       /\ Len(dupCsv.rows) = Cardinality({i \in 1..Len(dupAdds) : dupAdds[i].ok})

\* The source cue points of a type for which cuePoint.add succeeded.
CQAddedOfType(type) ==
    {cqAddReqs[k].src : k \in {i \in 1..Len(cqAddReqs) :
                                  cqAddReqs[i].ok /\ cqAddReqs[i].cuePointType = type}}

CQSourceOfType(type) ==
    {cqSource[k].id : k \in {i \in 1..Len(cqSource) : cqSource[i].cuePointType = type}}

\* C13 as stated, for runs in which every API call succeeded: with
\* COPY_QUIZ_ANSWERS every quiz.QUIZ_ANSWER cue point of the source entry is
\* added to the destination entry, without it none is, and the quiz questions
\* are added in both cases.
C13_QuizAnswersFollowFlag ==
    (/\ cqPc = "done" /\ cqListOk
     /\ \A k \in 1..Len(cqAddReqs) : cqAddReqs[k].ok) =>
       /\ cqCopyAnswers => CQAddedOfType(T_ANSWER) = CQSourceOfType(T_ANSWER)
       /\ ~cqCopyAnswers => CQAddedOfType(T_ANSWER) = {}
       /\ CQAddedOfType(T_QUESTION) = CQSourceOfType(T_QUESTION)

(***************************************************************************)
(* Claims about include-flavor-calculations                                *)
(***************************************************************************)
\* The stores to pool.results for a row.
StoresFor(idx) == {k \in 1..Len(ifcStores) : ifcStores[k].idx = idx}

\* C14: enrich_csv writes one output row per input row, in input order, each
\* with the pair a worker stored for that row; the first output row is
\* written only after q.join() returned, when every queued row was processed
\* (stored once, counted and marked done), under any interleaving.
C14_RowsInOrderAfterJoin ==
    /\ Len(ifcOut) <= Len(ifcRows)
    /\ \A k \in 1..Len(ifcOut) :
          /\ ifcOut[k].idx = k
          /\ \E s \in StoresFor(k) : ifcOut[k].value = ifcStores[s].value
    /\ (ifcOut # <<>> \/ ifcMainPc \in {"write", "done"}) =>
          /\ ifcQueue = <<>> /\ ifcUnfinished = 0
          /\ ifcCounters.processed = Len(ifcRows)
          /\ \A idx \in 1..Len(ifcRows) : Cardinality(StoresFor(idx)) = 1
          /\ \A w \in WorkerIds : ifcW[w].pc \in {"create", "get", "dead", "exited"}
    /\ ifcMainPc = "done" => Len(ifcOut) = Len(ifcRows)

\* A finished run of two rows that two different workers processed, one of
\* them with flavors.
C14_Witness ==
    /\ ifcMainPc = "done" /\ Len(ifcOut) = 2
    /\ \E a, b \in 1..Len(ifcStores) : ifcStores[a].by # ifcStores[b].by
    /\ \E k \in 1..Len(ifcOut) : ifcOut[k].value = <<2, 7>>

\* C15 as stated, for include-flavor-calculations: every write of a worker
\* thread to results, errs and the counters happens while the thread holds
\* pool.lock.
C15_WritesUnderLock ==
    \A x \in ifcWrites : x.locked

\* C16 as stated, the termination half: under fair scheduling and API calls
\* that return, every queued row is eventually processed, q.join() returns
\* and enrich_csv terminates, also when worker threads fail to create their
\* client.
C16_EnrichCsvTerminates ==
    <>(ifcMainPc = "done")

(***************************************************************************)
(* Claims about the operation loops                                        *)
(***************************************************************************)

\* The items for which the loop made an API call.
LPAttempted == {lpCalls[i].item : i \in 1..Len(lpCalls)}

\* C17 as stated: per-item error isolation in every operation loop.  Once a
\* script has stopped, by finishing or by an exception, every selected item
\* has been attempted, whatever failed on earlier items.
C17_EveryItemAttempted ==
    lpPc \in {"done", "crashed"} =>
        \A i \in 1..Len(lpItems) : lpItems[i].id \in LPAttempted


(***************************************************************************)
(* Claims about retry_call of media-retention-report                       *)
(***************************************************************************)

\* C18 as stated: every exception that _classify_warn classifies as timeout,
\* dns or http is retryable for _is_retryable_error, so retry_call does not
\* fail permanently on its first occurrence.
C18_TransientClassesRetried ==
    \A i \in 1..Len(rcHistory) :
        (~rcHistory[i].ok /\ rcHistory[i].kind \in {"timeout", "dns", "http"}) =>
            /\ rcHistory[i].retryable
            /\ ~(i = 1 /\ RETRIES >= 1 /\ rcPc = "raised" /\ Len(rcHistory) = 1)

\* The failures among the invocations of fn so far.
RCFailures == {i \in 1..Len(rcHistory) : ~rcHistory[i].ok}

BQReqsOf(e) ==
    LET of(r) == r.entry = e IN SelectSeq(bqListReqs, of)

RECURSIVE BQPagesIds(_, _)
\* The ids of the first k responses of reqs, page after page.
BQPagesIds(reqs, k) ==
    IF k = 0 THEN <<>>
    ELSE BQPagesIds(reqs, k - 1)
            \o AttemptIds(reqs[k].entry, 0, reqs[k].page, reqs[k].items)

\* What the entry at position e adds to all_attempt_ids once its collection
\* is over: every id of its pages if the last response was the empty page,
\* nothing if the last request failed.
BQContribution(e) ==
    LET reqs == BQReqsOf(e) IN
    IF reqs # <<>> /\ reqs[Len(reqs)].ok
    THEN BQPagesIds(reqs, Len(reqs))
    ELSE <<>>

RECURSIVE BQContributions(_)
BQContributions(e) ==
    IF e = 0 THEN <<>> ELSE BQContributions(e - 1) \o BQContribution(e)

\* C20: paginate-until-exhausted.  For every entry the requests ask for pages
\* 1, 2, 3, ... in order; every request but the last returned a non-empty
\* page; the collection of an entry is over exactly when a request returned
\* the empty page or failed; the ids collected so far are the ids of every
\* page, each once and in order; and all_attempt_ids holds, for the entries
\* done, every id of the entries whose last page was empty and no id of the
\* entries with a failed request, which are logged as errors.
C20_PaginateUntilExhausted ==
    bqVariant = "ALL" =>
        /\ \A e \in 1..Len(bqEntryIds) :
              LET reqs == BQReqsOf(e)
                  n == Len(reqs)
                  over == n >= 1 /\ (~reqs[n].ok \/ reqs[n].items = 0)
              IN
              /\ \A k \in 1..n : reqs[k].page = k
              /\ \A k \in 1..(n - 1) : reqs[k].ok /\ reqs[k].items > 0
              /\ e < bqEntryIdx <=> over
              /\ e > bqEntryIdx => n = 0
              /\ e = bqEntryIdx =>
                    bqPage = n + 1 /\ bqAttemptIds = BQPagesIds(reqs, n)
              /\ <<e, 0>> \in bqErrors <=> (n >= 1 /\ ~reqs[n].ok)
        /\ bqAll = BQContributions(bqEntryIdx - 1)

\* One entry was read to its empty third page, and another failed on its
\* second page after a non-empty first one.
C20_Witness ==
    /\ bqVariant = "ALL" /\ bqEntryIdx > Len(bqEntryIds)
    /\ \E i \in 1..Len(bqListReqs) :
          bqListReqs[i].page = 3 /\ bqListReqs[i].ok /\ bqListReqs[i].items = 0
    /\ \E i \in 1..Len(bqListReqs) :
          bqListReqs[i].page = 2 /\ ~bqListReqs[i].ok
    /\ bqAll # <<>> /\ bqErrors # {}

====
